---- MODULE Spec2Model ----
(***************************************************************************)
(* The Method of Moderation (src/code/moderation.py) as a state machine.   *)
(*                                                                         *)
(* Real numbers are fixed-point integers: the integer x stands for the     *)
(* real x / Scale.  Every arithmetic step rounds towards minus infinity,   *)
(* the way every floating-point step of the program rounds to a nearby     *)
(* representable value.  log and exp are computed by range reduction and a *)
(* monotone table, and saturate where the result is not representable,     *)
(* like their floating-point counterparts.                                 *)
(***************************************************************************)
EXTENDS Integers, Sequences, FiniteSets, TLC

\* ------------------------------------------------------------------------
\* Fixed-point arithmetic
\* ------------------------------------------------------------------------

\* Number of fixed-point units in 1.0.
Scale == 10 ^ 4

\* IEEE not-a-number, as produced by HARK's NullFunc or by log of a
\* non-positive number: a value outside the range of every number the model
\* computes.
NaN == -(2 ^ 30) - (2 ^ 29)

\* IEEE +infinity (overflow of exp).
Inf == 2 ^ 30 + 2 ^ 29

\* Python's None where a number is expected (BoroCnstArt, intercept, slope).
None == -(2 ^ 30) - (2 ^ 29) - 1

\* Python's None where an array is expected (dydx_list).
NoneList == << >>

IsNum(x) == NaN < x /\ x < Inf

Abs(x) == IF x < 0 THEN -x ELSE x

Min2(a, b) == IF a <= b THEN a ELSE b

Max2(a, b) == IF a >= b THEN a ELSE b

\* floor(a * b / Scale) without overflowing 32 bits on the way.
MulI(a, b) ==
    LET qa == a \div Scale
        ra == a % Scale
        qb == b \div Scale
        rb == b % Scale
    IN  qa * qb * Scale + qa * rb + ra * qb + (ra * rb) \div Scale

\* Long division, one decimal digit per step: (quotient, remainder) -> next.
RECURSIVE DivDigits(_, _, _, _)
DivDigits(q, r, b, n) ==
    IF n = 0 THEN q
    ELSE DivDigits(q * 10 + (r * 10) \div b, (r * 10) % b, b, n - 1)

\* floor(a * Scale / b) for b > 0, by long division.
DivPos(a, b) == DivDigits(a \div b, a % b, b, 4)

\* floor(a * Scale / b), b # 0.
DivI(a, b) == IF b > 0 THEN DivPos(a, b) ELSE DivPos(-a, -b)

\* NaN-propagating arithmetic (numpy semantics: any NaN operand gives NaN;
\* a division by zero gives inf or NaN, neither of which is a number).
Add(a, b) == IF IsNum(a) /\ IsNum(b) THEN a + b ELSE NaN

Sub(a, b) == IF IsNum(a) /\ IsNum(b) THEN a - b ELSE NaN

Mul(a, b) == IF IsNum(a) /\ IsNum(b) THEN MulI(a, b) ELSE NaN

Div(a, b) == IF IsNum(a) /\ IsNum(b) /\ b # 0 THEN DivI(a, b) ELSE NaN

\* floor(sqrt(n)) for n >= 0.
RECURSIVE ISqrtRec(_, _, _)
ISqrtRec(n, lo, hi) ==
    IF lo >= hi THEN lo
    ELSE LET mid == (lo + hi + 1) \div 2
         IN  IF mid <= n \div mid THEN ISqrtRec(n, mid, hi)
             ELSE ISqrtRec(n, lo, mid - 1)

ISqrt(n) == IF n <= 0 THEN 0 ELSE ISqrtRec(n, 0, Min2(n, 46340))

\* ln on [1, 2], tabulated at steps of 1/64 and interpolated linearly.
LnTable == << 0, 155, 308, 458, 606, 752, 896, 1038, 1178, 1316,
              1452, 1586, 1719, 1849, 1978, 2106, 2231, 2356, 2478, 2600,
              2719, 2838, 2955, 3070, 3185, 3298, 3409, 3520, 3629, 3737,
              3844, 3950, 4055, 4158, 4261, 4362, 4463, 4562, 4661, 4758,
              4855, 4951, 5046, 5139, 5232, 5325, 5416, 5506, 5596, 5685,
              5773, 5860, 5947, 6033, 6118, 6202, 6286, 6369, 6451, 6533,
              6614, 6694, 6774, 6853, 6931 >>

LnSteps == Len(LnTable) - 1

Ln2 == LnTable[LnSteps + 1]

\* ln(y / Scale) * Scale for Scale <= y <= 2 * Scale.
LnUnit(y) ==
    LET t == (y - Scale) * LnSteps
        i == t \div Scale
        f == t % Scale
    IN  IF i >= LnSteps THEN Ln2
        ELSE LnTable[i + 1] + ((LnTable[i + 2] - LnTable[i + 1]) * f) \div Scale

\* Range reduction: ln(x) = k ln 2 + ln(x / 2^k).
RECURSIVE LnUp(_, _)
LnUp(x, k) == IF x < 2 * Scale THEN k * Ln2 + LnUnit(x) ELSE LnUp(x \div 2, k + 1)

RECURSIVE LnDown(_, _)
LnDown(x, k) == IF x >= Scale THEN LnUnit(x) - k * Ln2 ELSE LnDown(x * 2, k + 1)

\* np.log: NaN for a negative argument, -inf for zero (neither is a number).
Ln(x) ==
    IF ~IsNum(x) \/ x <= 0 THEN NaN
    ELSE IF x >= Scale THEN LnUp(x, 0) ELSE LnDown(x, 0)

\* exp on [0, ln 2): the piecewise-linear inverse of LnUnit, by bisection
\* over the table.
RECURSIVE ExpSeg(_, _, _)
ExpSeg(r, lo, hi) ==
    IF hi - lo <= 1
    THEN Scale + (Scale * (lo - 1)) \div LnSteps
         + ((Scale \div LnSteps + 1) * (r - LnTable[lo]))
             \div (LnTable[lo + 1] - LnTable[lo])
    ELSE LET mid == (lo + hi) \div 2
         IN  IF r < LnTable[mid] THEN ExpSeg(r, lo, mid) ELSE ExpSeg(r, mid, hi)

\* exp(r / Scale) * Scale for 0 <= r < Ln2.
ExpUnit(r) == Min2(ExpSeg(r, 1, LnSteps + 1), 2 * Scale)

\* Largest k with 2^k * 2 * Scale representable: beyond it exp overflows.
ExpMaxK == 17 - 1

\* np.exp for x >= 0: exp(x) = 2^k exp(x - k ln 2); Inf once it overflows.
ExpNonNeg(x) ==
    LET k == x \div Ln2
        r == x % Ln2
    IN  IF k > ExpMaxK THEN Inf ELSE (2 ^ k) * ExpUnit(r)

\* np.exp for any x; exp of a negative number is 1 / exp(-x), 0 on underflow.
Exp(x) ==
    IF ~IsNum(x) THEN NaN
    ELSE IF x >= 0 THEN ExpNonNeg(x)
    ELSE LET e == ExpNonNeg(-x)
         IN  IF e = Inf THEN 0 ELSE DivI(Scale, e)

\* ------------------------------------------------------------------------
\* Floating-point numbers for marginal values
\* ------------------------------------------------------------------------
\* Marginal values u'(c) = c^-CRRA and their derivatives span many orders of
\* magnitude, so they are kept as floating-point numbers: s * m * 2^e with
\* sign s, a 21-bit mantissa m and an exponent e (m = 0 is zero).

MantBits == 3 * 7

HalfBits == 5 + 5

MantLo == 2 ^ (MantBits - 1)

MantHi == 2 ^ MantBits

FZero == [s |-> 1, m |-> 0, e |-> 0]

FNaN == [s |-> 1, m |-> NaN, e |-> 0]

FIsNaN(a) == a.m = NaN

RECURSIVE FNormUp(_, _, _)
FNormUp(s, m, e) == IF m >= MantLo THEN [s |-> s, m |-> m, e |-> e] ELSE FNormUp(s, m * 2, e - 1)

RECURSIVE FNormDown(_, _, _)
FNormDown(s, m, e) == IF m < MantHi THEN [s |-> s, m |-> m, e |-> e] ELSE FNormDown(s, m \div 2, e + 1)

\* Normalise s * m * 2^e, m >= 0.
FNorm(s, m, e) ==
    IF m = 0 THEN FZero
    ELSE IF m >= MantHi THEN FNormDown(s, m, e) ELSE FNormUp(s, m, e)

FFromInt(n) == IF n < 0 THEN FNorm(-1, -n, 0) ELSE FNorm(1, n, 0)

FNeg(a) == IF FIsNaN(a) THEN a ELSE [a EXCEPT !.s = -a.s]

\* Product of two mantissas divided by 2^(2 HalfBits), by halves.
MantMul(a, b) ==
    LET H == 2 ^ HalfBits
        ah == a \div H
        al == a % H
        bh == b \div H
        bl == b % H
    IN  ah * bh + (ah * bl + al * bh) \div H + (al * bl) \div (H * H)

FMul(a, b) ==
    IF FIsNaN(a) \/ FIsNaN(b) THEN FNaN
    ELSE FNorm(a.s * b.s, MantMul(a.m, b.m), a.e + b.e + 2 * HalfBits)

\* Long division, one bit per step.
RECURSIVE DivBits(_, _, _, _)
DivBits(q, r, b, n) ==
    IF n = 0 THEN q
    ELSE DivBits(q * 2 + (r * 2) \div b, (r * 2) % b, b, n - 1)

\* a / b; a division by zero is not a number.
FDiv(a, b) ==
    IF FIsNaN(a) \/ FIsNaN(b) \/ b.m = 0 THEN FNaN
    ELSE FNorm(a.s * b.s, DivBits(a.m \div b.m, a.m % b.m, b.m, MantBits),
               a.e - b.e - MantBits)

\* |a| >= |b| assumed by FAddOrd: b is shifted down to a's exponent.
FAddOrd(a, b) ==
    LET d == a.e - b.e
        k == HalfBits - 1
        am == a.m * (2 ^ k)
        bm == IF d > 2 * MantBits THEN 0 ELSE (b.m * (2 ^ k)) \div (2 ^ d)
    IN  IF a.s = b.s THEN FNorm(a.s, am + bm, a.e - k)
        ELSE FNorm(a.s, am - bm, a.e - k)

FAbsGe(a, b) == b.m = 0 \/ (a.m # 0 /\ (a.e > b.e \/ (a.e = b.e /\ a.m >= b.m)))

FAdd(a, b) ==
    IF FIsNaN(a) \/ FIsNaN(b) THEN FNaN
    ELSE IF a.m = 0 THEN b
    ELSE IF b.m = 0 THEN a
    ELSE IF FAbsGe(a, b) THEN FAddOrd(a, b) ELSE FAddOrd(b, a)

\* Square root of a non-negative number (integer square root of the
\* mantissa, refined by one Newton step); NaN for a negative one.
FSqrt(a) ==
    IF FIsNaN(a) \/ (a.s < 0 /\ a.m # 0) THEN FNaN
    ELSE IF a.m = 0 THEN FZero
    ELSE LET sh == IF (a.e - HalfBits) % 2 = 0 THEN HalfBits ELSE HalfBits - 1
             x0 == FNorm(1, ISqrt(a.m * (2 ^ sh)), (a.e - sh) \div 2)
             x1 == FAdd(x0, FDiv(a, x0))
         IN  [x1 EXCEPT !.e = x1.e - 1]

\* The fixed-point number x as a float (x / Scale).
FFromFix(x) == IF ~IsNum(x) THEN FNaN ELSE FDiv(FFromInt(x), FFromInt(Scale))

\* floor(Scale * |a|) with the sign of a; Inf when it is not representable.
FToFix(a) ==
    IF FIsNaN(a) THEN NaN
    ELSE IF a.m = 0 THEN 0
    ELSE IF a.e > -4 THEN (IF a.s > 0 THEN Inf ELSE NaN)
    ELSE LET drop == IF -a.e > 17 THEN -a.e - 17 ELSE 0
             m2 == IF drop > 2 * MantBits THEN 0 ELSE a.m \div (2 ^ drop)
             d == 2 ^ (-a.e - drop)
             v == (m2 \div d) * Scale + ((m2 % d) * Scale) \div d
         IN  IF a.s > 0 THEN v ELSE -v

\* a^n for an integer n >= 1.
RECURSIVE FPowPos(_, _)
FPowPos(a, n) == IF n = 1 THEN a ELSE FMul(a, FPowPos(a, n - 1))

\* a^n for any integer n (numpy's ** with an integral float exponent).
FPow(a, n) ==
    IF n = 0 THEN FFromInt(1)
    ELSE IF n > 0 THEN FPowPos(a, n)
    ELSE FDiv(FFromInt(1), FPowPos(a, -n))

\* Fixed-point square root: floor(Scale * sqrt(x / Scale)).
SqrtI(x) == FToFix(FSqrt(FFromFix(x)))

\* ------------------------------------------------------------------------
\* Sequence helpers (numpy array operations)
\* ------------------------------------------------------------------------

\* np.insert(arr, 0, v)
Insert0(arr, v) == << v >> \o arr

\* arr[mask]
RECURSIVE MaskSel(_, _)
MaskSel(arr, mask) ==
    IF arr = << >> THEN << >>
    ELSE (IF Head(mask) THEN << Head(arr) >> ELSE << >>) \o MaskSel(Tail(arr), Tail(mask))

\* np.any(mask)
AnyTrue(mask) == \E i \in 1..Len(mask) : mask[i]

RECURSIVE SeqSumF(_)
SeqSumF(fs) == IF fs = << >> THEN FZero ELSE FAdd(Head(fs), SeqSumF(Tail(fs)))

RECURSIVE SeqSum(_)
SeqSum(xs) == IF xs = << >> THEN 0 ELSE Add(Head(xs), SeqSum(Tail(xs)))

RECURSIVE SeqMin(_)
SeqMin(xs) == IF Len(xs) = 1 THEN xs[1] ELSE Min2(Head(xs), SeqMin(Tail(xs)))

StrictlyIncreasing(xs) == \A i \in 1..(Len(xs) - 1) : xs[i] < xs[i + 1]

\* ------------------------------------------------------------------------
\* Program constants
\* ------------------------------------------------------------------------

\* Coefficient of relative risk aversion used throughout (rho = 2.0).
CRRA == 2

MOM_EXTRAP_GAP_LEFT == 500

MOM_EXTRAP_GAP_RIGHT == 5000

\* x^(1/CRRA) for fixed-point x: the square root, NaN for a negative base.
RootCRRA(x) == IF ~IsNum(x) \/ x < 0 THEN NaN ELSE SqrtI(x)

\* a^(1/CRRA) and a^(-1/CRRA) for a float a.
FRootCRRA(a) == FSqrt(a)

FInvRootCRRA(a) == FDiv(FFromInt(1), FSqrt(a))

\* ------------------------------------------------------------------------
\* HARK: discrete distributions and the one-period parameter formulas
\* ------------------------------------------------------------------------
\* An income-shock distribution is a sequence of atoms
\* [p, PermShk, TranShk]; p is the probability weight.

\* expected(f, IncShkDstn) for a fixed-point valued f: sum of p * f(atom),
\* vals[j] being f at the j-th atom.
Expected(vals, dstn) == SeqSum([j \in 1..Len(dstn) |-> Mul(dstn[j].p, vals[j])])

\* expected(f, IncShkDstn) for a float valued f.
ExpectedF(vals, dstn) ==
    SeqSumF([j \in 1..Len(dstn) |-> FMul(FFromFix(dstn[j].p), vals[j])])

Income(atom) == Mul(atom.PermShk, atom.TranShk)

\* calc_worst_inc_prob(IncShkDstn, use_infimum=False)
calc_worst_inc_prob(dstn) ==
    LET worst == SeqMin([j \in 1..Len(dstn) |-> Income(dstn[j])])
    IN  SeqSum([j \in 1..Len(dstn) |->
                 IF Income(dstn[j]) = worst THEN dstn[j].p ELSE 0])

\* calc_human_wealth(h_nrm_next, perm_gro_fac, rfree, ex_inc_next)
calc_human_wealth(hNrmNext, PermGroFac, Rfree, ExIncNext) ==
    Mul(Div(PermGroFac, Rfree), Add(hNrmNext, ExIncNext))

\* calc_boro_const_nat(m_nrm_min_next, dstn, rfree, perm_gro_fac, use_infimum=False)
calc_boro_const_nat(mNrmMinNext, dstn, Rfree, PermGroFac) ==
    LET perm == SeqMin([j \in 1..Len(dstn) |-> dstn[j].PermShk])
        tran == SeqMin([j \in 1..Len(dstn) |-> dstn[j].TranShk])
        temp_fac == Div(Mul(PermGroFac, perm), Rfree)
    IN  Mul(Sub(mNrmMinNext, tran), temp_fac)

\* calc_m_nrm_min(boro_const_art, boro_const_nat)
calc_m_nrm_min(BoroCnstArt, BoroCnstNat) ==
    IF BoroCnstArt = None THEN BoroCnstNat ELSE Max2(BoroCnstNat, BoroCnstArt)

\* calc_patience_factor(rfree, disc_fac_eff, crra)
calc_patience_factor(Rfree, DiscFacEff) ==
    Div(RootCRRA(Mul(Rfree, DiscFacEff)), Rfree)

\* calc_mpc_min(mpc_min_next, pat_fac)
calc_mpc_min(MPCminNext, PatFac) ==
    Div(Scale, Add(Scale, Div(PatFac, MPCminNext)))

\* calc_mpc_max(mpc_max_next, worst_inc_prob, crra, pat_fac, ...)
calc_mpc_max(MPCmaxNext, WorstIncPrb, PatFac) ==
    LET temp_fac == Mul(RootCRRA(WorstIncPrb), PatFac)
    IN  Div(Scale, Add(Scale, Div(temp_fac, MPCmaxNext)))

\* prepare_to_solve collapsing MPCmax also when the two constraints coincide.
prepare_to_solve_collapse_on_equal(nxt, par) ==
    LET DiscFacEff == Mul(par.DiscFac, par.LivPrb)
        WorstIncPrb == calc_worst_inc_prob(par.IncShkDstn)
        Ex_IncNext == Expected([j \in 1..Len(par.IncShkDstn) |-> Income(par.IncShkDstn[j])],
                               par.IncShkDstn)
        hNrm == calc_human_wealth(nxt.hNrm, par.PermGroFac, par.Rfree, Ex_IncNext)
        BoroCnstNat == calc_boro_const_nat(nxt.mNrmMin, par.IncShkDstn,
                                           par.Rfree, par.PermGroFac)
        mNrmMin == calc_m_nrm_min(par.BoroCnstArt, BoroCnstNat)
        PatFac == calc_patience_factor(par.Rfree, DiscFacEff)
        MPCmin == calc_mpc_min(nxt.MPCmin, PatFac)
        MPCmaxUnc == calc_mpc_max(nxt.MPCmax, WorstIncPrb, PatFac)
        MPCmax == IF BoroCnstNat <= mNrmMin THEN Scale ELSE MPCmaxUnc
    IN  [DiscFacEff |-> DiscFacEff, hNrm |-> hNrm, BoroCnstNat |-> BoroCnstNat,
         mNrmMin |-> mNrmMin, MPCmin |-> MPCmin, MPCmax |-> MPCmax]

\* prepare_to_solve: the parameters shared by all solvers.  nxt is
\* solution_next, par the period's parameters.
prepare_to_solve(nxt, par) ==
    LET DiscFacEff == Mul(par.DiscFac, par.LivPrb)
        WorstIncPrb == calc_worst_inc_prob(par.IncShkDstn)
        Ex_IncNext == Expected([j \in 1..Len(par.IncShkDstn) |-> Income(par.IncShkDstn[j])],
                               par.IncShkDstn)
        hNrm == calc_human_wealth(nxt.hNrm, par.PermGroFac, par.Rfree, Ex_IncNext)
        BoroCnstNat == calc_boro_const_nat(nxt.mNrmMin, par.IncShkDstn,
                                           par.Rfree, par.PermGroFac)
        mNrmMin == calc_m_nrm_min(par.BoroCnstArt, BoroCnstNat)
        PatFac == calc_patience_factor(par.Rfree, DiscFacEff)
        MPCmin == calc_mpc_min(nxt.MPCmin, PatFac)
        MPCmaxUnc == calc_mpc_max(nxt.MPCmax, WorstIncPrb, PatFac)
        MPCmax == IF BoroCnstNat < mNrmMin THEN Scale ELSE MPCmaxUnc
    IN  [DiscFacEff |-> DiscFacEff, hNrm |-> hNrm, BoroCnstNat |-> BoroCnstNat,
         mNrmMin |-> mNrmMin, MPCmin |-> MPCmin, MPCmax |-> MPCmax]

\* ------------------------------------------------------------------------
\* Bounding callables
\* ------------------------------------------------------------------------
\* PerfForesightFunc(intercept, slope); kind "Lambda" is a plain Python
\* callable computing the same linear rule but without a derivative method.

PerfForesightFunc(intercept, slope) ==
    [kind |-> "PerfForesightFunc", intercept |-> intercept, slope |-> slope]

LambdaFunc(intercept, slope) ==
    [kind |-> "Lambda", intercept |-> intercept, slope |-> slope]

\* PerfForesightFunc.__call__
PFCall(f, m) == Mul(Add(m, f.intercept), f.slope)

\* PerfForesightFunc.derivative
PFDerivative(f, m) == f.slope

\* hasattr(f, "derivative")
HasDerivative(f) == f.kind # "Lambda"

\* soln_perf_foresight(intercept, slope, crra): the consumption rule of the
\* bounding solution.
soln_perf_foresight(intercept, slope) == [cFunc |-> PerfForesightFunc(intercept, slope)]

\* The bounds with the pessimist returned first.
make_behavioral_bounds_pessimist_first(hNrm, mNrmMin, MPCmin, MPCmax) ==
    << soln_perf_foresight(-mNrmMin, MPCmin),
       soln_perf_foresight(hNrm, MPCmin),
       soln_perf_foresight(-mNrmMin, MPCmax) >>

\* make_behavioral_bounds(hNrm, mNrmMin, MPCmin, MPCmax, CRRA): the tuple
\* (optimist, pessimist, tighter_upper_bound)
make_behavioral_bounds(hNrm, mNrmMin, MPCmin, MPCmax) ==
    << soln_perf_foresight(hNrm, MPCmin),
       soln_perf_foresight(-mNrmMin, MPCmin),
       soln_perf_foresight(-mNrmMin, MPCmax) >>

\* optimist, pessimist, tighterUpperBound = make_behavioral_bounds(...)
UnpackBounds(t) == [Optimist |-> t[1], Pessimist |-> t[2], TighterUpperBound |-> t[3]]

\* ------------------------------------------------------------------------
\* HARK interpolants
\* ------------------------------------------------------------------------

LinearInterp(x_list, y_list, intercept, slope, lower_extrap) ==
    [kind |-> "LinearInterp", x |-> x_list, y |-> y_list, dydx |-> NoneList,
     intercept |-> intercept, slope |-> slope, lower_extrap |-> lower_extrap]

CubicInterp(x_list, y_list, dydx_list, intercept, slope, lower_extrap) ==
    [kind |-> "CubicInterp", x |-> x_list, y |-> y_list, dydx |-> dydx_list,
     intercept |-> intercept, slope |-> slope, lower_extrap |-> lower_extrap]

\* What a call that raised leaves behind instead of an object: the
\* exception's type and message.
Raised(exc, msg) == [kind |-> exc, msg |-> msg]

CubicNeedsDerivativesMsg ==
    "Derivatives (dydx_list) must be provided when cubic_bool=True. CubicInterp requires derivative values for proper interpolation."

\* A faulty variant of _create_interpolation that demands derivatives for
\* every interpolant, linear or cubic.
create_interpolation_strict(cubic_bool, x_list, y_list, dydx_list, intercept, slope) ==
    IF dydx_list = NoneList
    THEN Raised("ValueError", CubicNeedsDerivativesMsg)
    ELSE IF cubic_bool
         THEN CubicInterp(x_list, y_list, dydx_list, intercept, slope, TRUE)
         ELSE LinearInterp(x_list, y_list, intercept, slope, TRUE)

\* _create_interpolation(cubic_bool, x_list, y_list, dydx_list, intercept, slope)
create_interpolation(cubic_bool, x_list, y_list, dydx_list, intercept, slope) ==
    IF cubic_bool
    THEN IF dydx_list = NoneList
         THEN Raised("ValueError", CubicNeedsDerivativesMsg)
         ELSE CubicInterp(x_list, y_list, dydx_list, intercept, slope, TRUE)
    ELSE LinearInterp(x_list, y_list, intercept, slope, TRUE)

\* numpy's ordering of floats: NaN sorts after every number.
NpLess(a, b) ==
    IF a = NaN THEN FALSE
    ELSE IF b = NaN THEN TRUE
    ELSE a < b

\* a < b as numpy evaluates it: False as soon as either side is NaN.
Lt(a, b) == a # NaN /\ b # NaN /\ a < b

\* np.searchsorted(xs[:upto], x, side): binary search between lo and hi
\* (0-based, as in numpy's binsearch).
RECURSIVE BinSearch(_, _, _, _, _)
BinSearch(xs, lo, hi, x, right) ==
    IF lo >= hi THEN lo
    ELSE LET mid == lo + (hi - lo) \div 2
             up == IF right THEN ~NpLess(x, xs[mid + 1]) ELSE NpLess(xs[mid + 1], x)
         IN  IF up THEN BinSearch(xs, mid + 1, hi, x, right)
             ELSE BinSearch(xs, lo, mid, x, right)

CountBelow(xs, upto, x, right) == BinSearch(xs, 0, upto, x, right)

\* LinearInterp._evalOrDer: left node of the segment used for x.
LinearSegment(f, x) == Max2(CountBelow(f.x, Len(f.x) - 1, x, FALSE), 1)

\* LinearInterp._evalOrDer on the segment with left node i: the level
\* (1 - alpha) * y[i] + alpha * y[i+1] and the slope of the segment.
LinearLevel(f, x, i) ==
    LET alpha == Div(Sub(x, f.x[i]), Sub(f.x[i + 1], f.x[i]))
    IN  Add(Mul(Sub(Scale, alpha), f.y[i]), Mul(alpha, f.y[i + 1]))

LinearSlope(f, i) == Div(Sub(f.y[i + 1], f.y[i]), Sub(f.x[i + 1], f.x[i]))

\* Below the first node the result is NaN unless lower_extrap is set.
LinearEval(f, x) ==
    IF ~IsNum(x) \/ (~f.lower_extrap /\ Lt(x, f.x[1])) THEN NaN
    ELSE LinearLevel(f, x, LinearSegment(f, x))

LinearDer(f, x) ==
    IF ~IsNum(x) \/ (~f.lower_extrap /\ Lt(x, f.x[1])) THEN NaN
    ELSE LinearSlope(f, LinearSegment(f, x))

\* CubicInterp: Hermite coefficients of the segment with left node i, on
\* the segment mapped to [0, 1].
CubicHermite(y0, y1, dydx0, dydx1) ==
    << y0,
       dydx0,
       Sub(Sub(Mul(3 * Scale, Sub(y1, y0)), Mul(2 * Scale, dydx0)), dydx1),
       Add(Add(Mul(2 * Scale, Sub(y0, y1)), dydx0), dydx1) >>

CubicCoeffs(f, i) ==
    CubicHermite(f.y[i], f.y[i + 1],
                 Mul(f.dydx[i], Sub(f.x[i + 1], f.x[i])),
                 Mul(f.dydx[i + 1], Sub(f.x[i + 1], f.x[i])))

\* The cubic c0 + alpha * (c1 + alpha * (c2 + alpha * c3)) and its derivative in
\* alpha.
CubicPoly(c, alpha) ==
    Add(c[1], Mul(alpha, Add(c[2], Mul(alpha, Add(c[3], Mul(alpha, c[4]))))))

CubicPolyDer(c, alpha) ==
    Add(c[2], Mul(alpha, Add(Mul(2 * Scale, c[3]), Mul(alpha, Mul(3 * Scale, c[4])))))

\* CubicInterp._evaluate with pos = np.searchsorted(x_list, x, side="right"):
\* linear extrapolation with the end slopes outside the nodes.
CubicLevel(f, x, n, pos) ==
    IF pos = 0
    THEN (IF f.lower_extrap THEN Add(f.y[1], Mul(f.dydx[1], Sub(x, f.x[1]))) ELSE NaN)
    ELSE IF pos = n THEN Add(f.y[n], Mul(f.dydx[n], Sub(x, f.x[n])))
    ELSE CubicPoly(CubicCoeffs(f, pos),
                   Div(Sub(x, f.x[pos]), Sub(f.x[pos + 1], f.x[pos])))

\* CubicInterp._der
CubicSlope(f, x, n, pos) ==
    IF pos = 0 THEN (IF f.lower_extrap THEN f.dydx[1] ELSE NaN)
    ELSE IF pos = n THEN f.dydx[n]
    ELSE Div(CubicPolyDer(CubicCoeffs(f, pos),
                          Div(Sub(x, f.x[pos]), Sub(f.x[pos + 1], f.x[pos]))),
             Sub(f.x[pos + 1], f.x[pos]))

CubicEval(f, x) ==
    IF ~IsNum(x) THEN NaN
    ELSE CubicLevel(f, x, Len(f.x), CountBelow(f.x, Len(f.x), x, TRUE))

CubicDer(f, x) ==
    IF ~IsNum(x) THEN NaN
    ELSE CubicSlope(f, x, Len(f.x), CountBelow(f.x, Len(f.x), x, TRUE))

\* interpolant(x)
InterpEval(f, x) == IF f.kind = "CubicInterp" THEN CubicEval(f, x) ELSE LinearEval(f, x)

\* interpolant.derivativeX(x)
InterpDer(f, x) == IF f.kind = "CubicInterp" THEN CubicDer(f, x) ELSE LinearDer(f, x)

\* ------------------------------------------------------------------------
\* The moderation transforms
\* ------------------------------------------------------------------------

\* np.log1p(x)
Log1p(x) == Ln(Add(Scale, x))

\* log_mnrm_ex(m, m_min) = log1p(m - m_min - 1)
log_mnrm_ex(m, m_min) == Log1p(Sub(Sub(m, m_min), Scale))

\* moderate(m, f_opt, f_real, f_pess)
moderate(m, f_opt, f_real, f_pess) ==
    LET f_opt_vals == PFCall(f_opt, m)
        f_pess_vals == PFCall(f_pess, m)
    IN  Div(Sub(f_real, f_pess_vals), Sub(f_opt_vals, f_pess_vals))

\* logit_moderate(omega) = log(omega) - log1p(-omega)
logit_moderate(omega) == Sub(Ln(omega), Log1p(Sub(0, omega)))

\* expit_moderate(chi) = 1 / (1 + exp(-chi))
\* 1 / (1 + e) for e = exp(-chi), which can have overflowed to infinity.
Recip1p(e) ==
    IF e = NaN THEN NaN
    ELSE IF e = Inf THEN 0
    ELSE Div(Scale, Scale + e)

expit_moderate(chi) == Recip1p(Exp(Sub(0, chi)))

\* ------------------------------------------------------------------------
\* TransformedFunctionMoM
\* ------------------------------------------------------------------------

\* TransformedFunctionMoM.__init__
TransformedFunctionMoM(mNrmMin, modRteFunc, logitModRteFunc, optimist_func, pessimist_func, MPCmin, MPCmax) ==
    [kind |-> "TransformedFunctionMoM", mNrmMin |-> mNrmMin,
     modRteFunc |-> modRteFunc, logitModRteFunc |-> logitModRteFunc,
     optimist_func |-> optimist_func, pessimist_func |-> pessimist_func,
     MPCmin |-> MPCmin, MPCmax |-> MPCmax]

\* The outcome of a call: a returned value, or the exception it raised.
Returned(v) == [exc |-> "", msg |-> "", val |-> v]

Threw(exc, msg) == [exc |-> exc, msg |-> msg, val |-> NaN]

\* A faulty variant of __call__ that reads omega from the stored
\* omega-interpolant instead of going through chi and expit.
MoMCallOmegaInterp(f, m) ==
    LET mu == log_mnrm_ex(m, f.mNrmMin)
        f_opt == PFCall(f.optimist_func, m)
        f_pes == PFCall(f.pessimist_func, m)
        omega == InterpEval(f.modRteFunc, mu)
    IN  Add(f_pes, Mul(omega, Sub(f_opt, f_pes)))

\* TransformedFunctionMoM.__call__ at one point m
MoMCall(f, m) ==
    LET mu == log_mnrm_ex(m, f.mNrmMin)
        f_opt == PFCall(f.optimist_func, m)
        f_pes == PFCall(f.pessimist_func, m)
        chi == InterpEval(f.logitModRteFunc, mu)
        omega == expit_moderate(chi)
    IN  Add(f_pes, Mul(omega, Sub(f_opt, f_pes)))

\* np.allclose(a, b): |a - b| <= atol + rtol * |b| with rtol = 1e-5; atol =
\* 1e-8 is below the resolution of the model.
AllClose(a, b) == IsNum(a) /\ IsNum(b) /\ Abs(a - b) * 100000 <= Abs(b)

\* omega'_mu = omega * (1 - omega) * chi'_mu
omega_prime(omega, chi_prime_mu) == Mul(Mul(omega, Sub(Scale, omega)), chi_prime_mu)

\* A faulty variant of the equal-slope formula that leaves out the division
\* by m_ex.
MoMSlopeEqualNoExcess(f_opt, f_pes, f_opt_prime, m_ex, omega, chi_prime_mu) ==
    LET h_ex == Sub(f_opt, f_pes)
        MPCmin == f_opt_prime
        h_nrm_ex == Div(h_ex, MPCmin)
        omega_prime_mu == omega_prime(omega, chi_prime_mu)
    IN  Mul(MPCmin, Add(Scale, Mul(h_nrm_ex, omega_prime_mu)))

\* TransformedFunctionMoM.derivative, step 3: both bounds have the slope
\* MPCmin; MPC = MPCmin * (1 + (h_nrm_ex / m_ex) * omega'_mu).
MoMSlopeEqual(f_opt, f_pes, f_opt_prime, m_ex, omega, chi_prime_mu) ==
    LET h_ex == Sub(f_opt, f_pes)
        MPCmin == f_opt_prime
        h_nrm_ex == Div(h_ex, MPCmin)
        omega_prime_mu == omega_prime(omega, chi_prime_mu)
    IN  Mul(MPCmin, Add(Scale, Mul(Div(h_nrm_ex, m_ex), omega_prime_mu)))

\* TransformedFunctionMoM.derivative, step 4: the full product rule.
MoMSlopeGeneral(f_opt, f_pes, f_opt_prime, f_pes_prime, m_ex, omega, chi_prime_mu) ==
    LET dmu_dm == Div(Scale, m_ex)
        d_omega_dm == Mul(omega_prime(omega, chi_prime_mu), dmu_dm)
        base_slope == f_pes_prime
        slope_adjustment == Mul(omega, Sub(f_opt_prime, f_pes_prime))
        moderation_adjustment == Mul(d_omega_dm, Sub(f_opt, f_pes))
    IN  Add(Add(base_slope, slope_adjustment), moderation_adjustment)

\* TransformedFunctionMoM.derivative, steps 3 and 4: the slope from the values
\* and slopes of the bounds, m_ex, omega and chi'(mu).
MoMSlope(f_opt, f_pes, f_opt_prime, f_pes_prime, m_ex, omega, chi_prime_mu) ==
    IF AllClose(f_opt_prime, f_pes_prime)
    THEN MoMSlopeEqual(f_opt, f_pes, f_opt_prime, m_ex, omega, chi_prime_mu)
    ELSE MoMSlopeGeneral(f_opt, f_pes, f_opt_prime, f_pes_prime, m_ex, omega,
                         chi_prime_mu)

BoundNeedsDerivativeMsg ==
    "Bounding functions must implement a 'derivative' method. Use PerfForesightFunc for linear bounding functions."

\* A faulty variant of derivative that looks for the derivative method of
\* the optimist only and takes the pessimist's slope for granted.
MoMDerivativeOptimistOnly(f, m) ==
    IF ~HasDerivative(f.optimist_func)
    THEN Threw("TypeError", BoundNeedsDerivativeMsg)
    ELSE Returned(MoMSlope(PFCall(f.optimist_func, m), PFCall(f.pessimist_func, m),
                           f.optimist_func.slope, f.pessimist_func.slope,
                           Sub(m, f.mNrmMin),
                           expit_moderate(InterpEval(f.logitModRteFunc,
                                                     log_mnrm_ex(m, f.mNrmMin))),
                           InterpDer(f.logitModRteFunc, log_mnrm_ex(m, f.mNrmMin))))

\* TransformedFunctionMoM.derivative at one point m
MoMDerivative(f, m) ==
    LET mu == log_mnrm_ex(m, f.mNrmMin)
        f_opt == PFCall(f.optimist_func, m)
        f_pes == PFCall(f.pessimist_func, m)
        f_opt_prime == PFDerivative(f.optimist_func, m)
        f_pes_prime == PFDerivative(f.pessimist_func, m)
        m_ex == Sub(m, f.mNrmMin)
        chi == InterpEval(f.logitModRteFunc, mu)
        omega == expit_moderate(chi)
        chi_prime_mu == InterpDer(f.logitModRteFunc, mu)
    IN  IF ~HasDerivative(f.optimist_func) \/ ~HasDerivative(f.pessimist_func)
        THEN Threw("TypeError", BoundNeedsDerivativeMsg)
        ELSE Returned(MoMSlope(f_opt, f_pes, f_opt_prime, f_pes_prime, m_ex, omega,
                               chi_prime_mu))

\* A faulty variant of _construct_mom_interpolants that always takes the
\* fallback of constant end values, whether or not slopes are given.
construct_mom_interpolants_flat(mu, modRte, modRteMu, logitModRte, logitModRteMu, CubicBool) ==
    LET n == Len(mu)
        muAug == << Sub(mu[1], MOM_EXTRAP_GAP_LEFT) >> \o mu
                 \o << Add(mu[n], MOM_EXTRAP_GAP_RIGHT) >>
        modRteAug == << modRte[1] >> \o modRte \o << modRte[n] >>
        logitModRteAug == << logitModRte[1] >> \o logitModRte \o << logitModRte[n] >>
        modRteMuAug == << modRteMu[1] >> \o modRteMu \o << modRteMu[n] >>
        logitModRteMuAug == << logitModRteMu[1] >> \o logitModRteMu \o << logitModRteMu[n] >>
    IN  [modRteFunc |-> create_interpolation(CubicBool, muAug, modRteAug,
                                             IF CubicBool THEN modRteMuAug ELSE NoneList,
                                             None, None),
         logitModRteFunc |-> create_interpolation(CubicBool, muAug, logitModRteAug,
                                                  IF CubicBool THEN logitModRteMuAug
                                                  ELSE NoneList,
                                                  None, None)]

\* _construct_mom_interpolants(mu, modRte, modRteMu, logitModRte,
\* logitModRteMu, CubicBool): the pair (modRteFunc, logitModRteFunc).
construct_mom_interpolants(mu, modRte, modRteMu, logitModRte, logitModRteMu, CubicBool) ==
    LET n == Len(mu)
        muAug == << Sub(mu[1], MOM_EXTRAP_GAP_LEFT) >> \o mu
                 \o << Add(mu[n], MOM_EXTRAP_GAP_RIGHT) >>
        modRteAug ==
            IF modRteMu # NoneList
            THEN << Sub(modRte[1], Mul(modRteMu[1], MOM_EXTRAP_GAP_LEFT)) >> \o modRte
                 \o << Add(modRte[n], Mul(modRteMu[n], MOM_EXTRAP_GAP_RIGHT)) >>
            ELSE << modRte[1] >> \o modRte \o << modRte[n] >>
        modRteMuAug ==
            IF modRteMu # NoneList
            THEN << modRteMu[1] >> \o modRteMu \o << modRteMu[n] >>
            ELSE NoneList
        logitModRteAug ==
            IF logitModRteMu # NoneList
            THEN << Sub(logitModRte[1], Mul(logitModRteMu[1], MOM_EXTRAP_GAP_LEFT)) >>
                 \o logitModRte
                 \o << Add(logitModRte[n], Mul(logitModRteMu[n], MOM_EXTRAP_GAP_RIGHT)) >>
            ELSE << logitModRte[1] >> \o logitModRte \o << logitModRte[n] >>
        logitModRteMuAug ==
            IF logitModRteMu # NoneList
            THEN << logitModRteMu[1] >> \o logitModRteMu \o << logitModRteMu[n] >>
            ELSE NoneList
        modRteDerivatives == IF CubicBool THEN modRteMuAug ELSE NoneList
        logitModRteDerivatives == IF CubicBool THEN logitModRteMuAug ELSE NoneList
    IN  [modRteFunc |-> create_interpolation(CubicBool, muAug, modRteAug,
                                             modRteDerivatives, None, None),
         logitModRteFunc |-> create_interpolation(CubicBool, muAug, logitModRteAug,
                                                  logitModRteDerivatives, None, None)]

\* ------------------------------------------------------------------------
\* Extension 1: the three-piece cusp approximation
\* ------------------------------------------------------------------------

\* The cusp with the excess human wealth divided by MPCmax alone.
calc_cusp_point_over_max(hNrm, mNrmMin, MPCmin, MPCmax) ==
    Add(mNrmMin, Div(Mul(MPCmin, Add(hNrm, mNrmMin)), MPCmax))

\* calc_cusp_point(hNrm, mNrmMin, MPCmin, MPCmax)
calc_cusp_point(hNrm, mNrmMin, MPCmin, MPCmax) ==
    LET hNrmPes == Sub(0, mNrmMin)
        hNrmOpt == hNrm
        hNrmEx == Sub(hNrmOpt, hNrmPes)
    IN  Add(Sub(0, hNrmPes), Div(Mul(MPCmin, hNrmEx), Sub(MPCmax, MPCmin)))

\* moderate_tight(m, mNrmMin, cNrm, MPCmin, MPCmax)
moderate_tight(m, mNrmMin, cNrm, MPCmin, MPCmax) ==
    LET mNrmEx == Sub(m, mNrmMin)
        c_pes == Mul(MPCmin, mNrmEx)
        c_tight == Mul(MPCmax, mNrmEx)
    IN  Div(Sub(cNrm, c_pes), Sub(c_tight, c_pes))

\* TransformedFunctionMoMCusp.__init__
TransformedFunctionMoMCusp(mNrmMin, mNrmCusp, modRteFuncLow, logitModRteFuncLow, modRteFuncHigh, logitModRteFuncHigh, optimist_func, pessimist_func, tight_func, MPCmin, MPCmax) ==
    [kind |-> "TransformedFunctionMoMCusp", mNrmMin |-> mNrmMin,
     mNrmCusp |-> mNrmCusp,
     modRteFuncLow |-> modRteFuncLow, logitModRteFuncLow |-> logitModRteFuncLow,
     modRteFuncHigh |-> modRteFuncHigh, logitModRteFuncHigh |-> logitModRteFuncHigh,
     optimist_func |-> optimist_func, pessimist_func |-> pessimist_func,
     tight_func |-> tight_func, MPCmin |-> MPCmin, MPCmax |-> MPCmax]

\* An element of np.empty_like(m) that no statement has assigned yet.
Unassigned == -(2 ^ 30) - (2 ^ 29) - 2

\* Number of True entries among mask[1..i].
MaskRank(mask, i) == Cardinality({j \in 1..i : mask[j]})

\* arr[mask] = vals
MaskAssign(arr, mask, vals) ==
    [i \in 1..Len(arr) |-> IF mask[i] THEN vals[MaskRank(mask, i)] ELSE arr[i]]

\* A faulty variant of the mask that sends the cusp itself to the low region.
CuspLowMaskInclusive(f, m) ==
    [i \in 1..Len(m) |-> m[i] # NaN /\ f.mNrmCusp # NaN /\ m[i] <= f.mNrmCusp]

\* low_mask = m < self.mNrmCusp
CuspLowMask(f, m) == [i \in 1..Len(m) |-> Lt(m[i], f.mNrmCusp)]

\* Body of the low-region block of __call__, at one point of m_low.
CuspCallLow(f, m) ==
    LET mu_low == log_mnrm_ex(m, f.mNrmMin)
        chi_low == InterpEval(f.logitModRteFuncLow, mu_low)
        omega_low == expit_moderate(chi_low)
        c_pes_low == PFCall(f.pessimist_func, m)
        c_tight_low == PFCall(f.tight_func, m)
    IN  Add(c_pes_low, Mul(omega_low, Sub(c_tight_low, c_pes_low)))

\* Body of the high-region block of __call__, at one point of m_high.
CuspCallHigh(f, m) ==
    LET mu_high == log_mnrm_ex(m, f.mNrmMin)
        chi_high == InterpEval(f.logitModRteFuncHigh, mu_high)
        omega_high == expit_moderate(chi_high)
        c_pes_high == PFCall(f.pessimist_func, m)
        c_opt_high == PFCall(f.optimist_func, m)
    IN  Add(c_pes_high, Mul(omega_high, Sub(c_opt_high, c_pes_high)))

\* mpc[low_mask] = MPCmin + (omega_low + omega_prime_mu_low) * (MPCmax - MPCmin)
CuspSlopeLow(f, omega_low, omega_prime_mu_low) ==
    Add(f.MPCmin, Mul(Add(omega_low, omega_prime_mu_low), Sub(f.MPCmax, f.MPCmin)))

\* Body of the low-region block of derivative, at one point of m_low.
CuspDerLow(f, m) ==
    LET mu_low == log_mnrm_ex(m, f.mNrmMin)
        chi_low == InterpEval(f.logitModRteFuncLow, mu_low)
        chi_prime_mu_low == InterpDer(f.logitModRteFuncLow, mu_low)
        SlopeAt(omega_low) ==
            CuspSlopeLow(f, omega_low, omega_prime(omega_low, chi_prime_mu_low))
    IN  SlopeAt(expit_moderate(chi_low))

\* Body of the high-region block of derivative, at one point of m_high.
CuspDerHigh(f, m) ==
    LET m_ex_high == Sub(m, f.mNrmMin)
        mu_high == log_mnrm_ex(m, f.mNrmMin)
        chi_high == InterpEval(f.logitModRteFuncHigh, mu_high)
        omega_high == expit_moderate(chi_high)
        chi_prime_mu_high == InterpDer(f.logitModRteFuncHigh, mu_high)
        omega_prime_mu_high == omega_prime(omega_high, chi_prime_mu_high)
        hNrmEx == Div(Sub(PFCall(f.optimist_func, m), PFCall(f.pessimist_func, m)), f.MPCmin)
    IN  Mul(f.MPCmin, Add(Scale, Mul(Div(hNrmEx, m_ex_high), omega_prime_mu_high)))

\* The two masked blocks shared by __call__ and derivative: the output array
\* starts unassigned, the low block fills the entries of low_mask, the high
\* block those of ~low_mask.
\* low_out and high_out are the blocks' results on m[low_mask] and
\* m[~low_mask].
CuspScatter(low_mask, low_out, high_out) ==
    LET c0 == [i \in 1..Len(low_mask) |-> Unassigned]
        c1 == IF AnyTrue(low_mask) THEN MaskAssign(c0, low_mask, low_out) ELSE c0
        high_mask == [i \in 1..Len(low_mask) |-> ~low_mask[i]]
    IN  IF AnyTrue(high_mask) THEN MaskAssign(c1, high_mask, high_out) ELSE c1

\* m[~low_mask]
CuspHighSel(m, low_mask) == MaskSel(m, [i \in 1..Len(m) |-> ~low_mask[i]])

CuspCallMasked(f, m_low, m_high, low_mask) ==
    CuspScatter(low_mask,
                [j \in 1..Len(m_low) |-> CuspCallLow(f, m_low[j])],
                [j \in 1..Len(m_high) |-> CuspCallHigh(f, m_high[j])])

CuspDerMasked(f, m_low, m_high, low_mask) ==
    CuspScatter(low_mask,
                [j \in 1..Len(m_low) |-> CuspDerLow(f, m_low[j])],
                [j \in 1..Len(m_high) |-> CuspDerHigh(f, m_high[j])])

\* TransformedFunctionMoMCusp.__call__ on the array m
CuspCall(f, m) ==
    CuspCallMasked(f, MaskSel(m, CuspLowMask(f, m)), CuspHighSel(m, CuspLowMask(f, m)),
                   CuspLowMask(f, m))

\* TransformedFunctionMoMCusp.derivative on the array m
CuspDerivative(f, m) ==
    CuspDerMasked(f, MaskSel(m, CuspLowMask(f, m)), CuspHighSel(m, CuspLowMask(f, m)),
                  CuspLowMask(f, m))

\* ------------------------------------------------------------------------
\* Next period's solution as seen by the EGM step
\* ------------------------------------------------------------------------

\* HARK's terminal-period solution: c(m) = m, no human wealth, MPC 1.
TerminalCFunc == LinearInterp(<< 0, Scale >>, << 0, Scale >>, None, None, FALSE)

solution_terminal ==
    [cFunc |-> TerminalCFunc, vFunc |-> "ValueFuncCRRA",
     vPfunc |-> "MargValueFuncCRRA", vPPfunc |-> "MargMargValueFuncCRRA",
     mNrmMin |-> 0, hNrm |-> 0, MPCmin |-> Scale, MPCmax |-> Scale]

\* solution_next.cFunc(m) and its derivative, for the consumption functions
\* a previous period can have produced.
CFuncEval(f, m) ==
    IF f.kind \in {"LinearInterp", "CubicInterp"} THEN InterpEval(f, m)
    ELSE IF f.kind = "TransformedFunctionMoM" THEN MoMCall(f, m)
    ELSE IF f.kind = "TransformedFunctionMoMCusp" THEN CuspCall(f, << m >>)[1]
    ELSE NaN

CFuncDer(f, m) ==
    IF f.kind \in {"LinearInterp", "CubicInterp"} THEN InterpDer(f, m)
    ELSE IF f.kind = "TransformedFunctionMoM" THEN MoMDerivative(f, m).val
    ELSE IF f.kind = "TransformedFunctionMoMCusp" THEN CuspDerivative(f, << m >>)[1]
    ELSE NaN

\* MargValueFuncCRRA(cFunc, CRRA)(m) = cFunc(m)^-CRRA
vPfuncNext(nxt, m) == FPow(FFromFix(CFuncEval(nxt.cFunc, m)), -CRRA)

\* MargMargValueFuncCRRA(cFunc, CRRA)(m) = MPC(m) * (-CRRA) * c(m)^(-CRRA-1);
\* HARK's NullFunc returns NaN.
vPPfuncNext(nxt, m) ==
    IF nxt.vPPfunc = "NullFunc" THEN FNaN
    ELSE FMul(FFromFix(CFuncDer(nxt.cFunc, m)),
              FMul(FFromInt(-CRRA),
                   FPow(FFromFix(CFuncEval(nxt.cFunc, m)), -CRRA - 1)))

\* calc_m_nrm_next(S, a, R, G) = R / (G * PermShk) * a + TranShk
calc_m_nrm_next(atom, a, Rfree, PermGroFac) ==
    Add(Mul(Div(Rfree, Mul(PermGroFac, atom.PermShk)), a), atom.TranShk)

\* calc_vp_next(S, a, R, rho, G, vPfunc) = PermShk^-rho * vPfunc(m_next)
calc_vp_next(atom, a, Rfree, PermGroFac, nxt) ==
    FMul(FPow(FFromFix(atom.PermShk), -CRRA),
         vPfuncNext(nxt, calc_m_nrm_next(atom, a, Rfree, PermGroFac)))

\* calc_vpp_next(S, a, R, rho, G, vPPfunc) = PermShk^(-rho-1) * vPPfunc(m_next)
calc_vpp_next(atom, a, Rfree, PermGroFac, nxt) ==
    FMul(FPow(FFromFix(atom.PermShk), -CRRA - 1),
         vPPfuncNext(nxt, calc_m_nrm_next(atom, a, Rfree, PermGroFac)))

\* solve_egm_step: the arrays aNrm, cNrm, mNrm (fixed point) and EndOfPrdvP
\* (floats), aligned by index.
solve_egm_step(aXtraGrid, mNrmMin, DiscFacEff, Rfree, PermGroFac, IncShkDstn, nxt) ==
    LET n == Len(aXtraGrid)
        aNrm == [i \in 1..n |-> Add(aXtraGrid[i], mNrmMin)]
        vPfacEff == FMul(FMul(FFromFix(DiscFacEff), FFromFix(Rfree)),
                         FPow(FFromFix(PermGroFac), -CRRA))
        vp(a) == LET F(atom) == calc_vp_next(atom, a, Rfree, PermGroFac, nxt)
                 IN  FMul(vPfacEff,
                          ExpectedF([j \in 1..Len(IncShkDstn) |-> F(IncShkDstn[j])],
                                    IncShkDstn))
        EndOfPrdvP == [i \in 1..n |-> vp(aNrm[i])]
        cNrm == [i \in 1..n |-> FToFix(FInvRootCRRA(EndOfPrdvP[i]))]
        mNrm == [i \in 1..n |-> Add(cNrm[i], aNrm[i])]
    IN  [aNrm |-> aNrm, cNrm |-> cNrm, mNrm |-> mNrm, EndOfPrdvP |-> EndOfPrdvP]

\* uFunc.der(c, order=2) = -CRRA * c^(-CRRA-1)
uPP(c) == FMul(FFromInt(-CRRA), FPow(FFromFix(c), -CRRA - 1))

\* _compute_mpc_vector(u_func, end_of_prd_vpp, c_nrm), one element
compute_mpc(end_of_prd_vpp, c_nrm) ==
    LET dcda == FDiv(end_of_prd_vpp, uPP(c_nrm))
    IN  FToFix(FDiv(dcda, FAdd(dcda, FFromInt(1))))

\* The MPC vector both MoM builders compute from next period's v''.
MPCVector(DiscFacEff, Rfree, PermGroFac, IncShkDstn, nxt, aNrm, cNrm) ==
    LET vPPfacEff == FMul(FMul(FFromFix(DiscFacEff), FMul(FFromFix(Rfree), FFromFix(Rfree))),
                          FPow(FFromFix(PermGroFac), -CRRA - 1))
        vpp(a) == LET F(atom) == calc_vpp_next(atom, a, Rfree, PermGroFac, nxt)
                  IN  FMul(vPPfacEff,
                           ExpectedF([j \in 1..Len(IncShkDstn) |-> F(IncShkDstn[j])],
                                     IncShkDstn))
    IN  [i \in 1..Len(aNrm) |-> compute_mpc(vpp(aNrm[i]), cNrm[i])]

\* ------------------------------------------------------------------------
\* The baseline solver: the endogenous grid method
\* ------------------------------------------------------------------------

\* _build_cfunc_egm: the interpolant of consumption through the boundary
\* node (mNrmMin, 0) and the EGM gridpoints.
build_cfunc_egm(DiscFacEff, Rfree, PermGroFac, IncShkDstn, nxt, aNrm, cNrm, mNrm, mNrmMin, hNrm, MPCmin, MPCmax, ExtrapBool, CubicBool) ==
    LET cNrmAug == Insert0(cNrm, 0)
        mNrmAug == Insert0(mNrm, mNrmMin)
        cFuncLimitIntercept == Mul(MPCmin, hNrm)
        cFuncLimitSlope == MPCmin
        MPCAug == IF CubicBool
                  THEN Insert0(MPCVector(DiscFacEff, Rfree, PermGroFac, IncShkDstn, nxt,
                                         aNrm, cNrm),
                               MPCmax)
                  ELSE NoneList
    IN  create_interpolation(CubicBool, mNrmAug, cNrmAug, MPCAug,
                             IF ExtrapBool THEN cFuncLimitIntercept ELSE None,
                             IF ExtrapBool THEN cFuncLimitSlope ELSE None)

\* A faulty variant of the grid of _endogenous_grid_method that gets the
\* gridpoint at the constraint whether or not the artificial limit binds.
EgmGridAlways(aXtraGrid, BoroCnstNat, mNrmMin) == Insert0(aXtraGrid, 0)

\* aXtraGrid = np.insert(aXtraGrid, 0, 0.0) if BoroCnstNat != mNrmMin else
\* aXtraGrid: the local grid of _endogenous_grid_method.
EgmGrid(aXtraGrid, BoroCnstNat, mNrmMin) ==
    IF BoroCnstNat # mNrmMin THEN Insert0(aXtraGrid, 0) ELSE aXtraGrid

\* _endogenous_grid_method as a function of its arguments, in the order of
\* its statements: the solution from the EGM arrays, ...
EgmFromArrays(prm, egm, nxt, p, ExtrapBool) ==
    [cFunc |-> build_cfunc_egm(prm.DiscFacEff, p.Rfree, p.PermGroFac, p.IncShkDstn,
                               nxt, egm.aNrm, egm.cNrm, egm.mNrm, prm.mNrmMin,
                               prm.hNrm, prm.MPCmin, prm.MPCmax, ExtrapBool,
                               p.CubicBool),
     vFunc |-> "NullFunc",
     vPfunc |-> "MargValueFuncCRRA",
     vPPfunc |-> "MargMargValueFuncCRRA",
     mNrmMin |-> prm.mNrmMin, hNrm |-> prm.hNrm,
     MPCmin |-> prm.MPCmin, MPCmax |-> prm.MPCmax]
        @@ UnpackBounds(make_behavioral_bounds(prm.hNrm, prm.mNrmMin, prm.MPCmin,
                                               prm.MPCmax))

\* A faulty variant that builds the bounds from next period's human wealth.
EgmFromPreparedStaleWealth(prm, nxt, p, ExtrapBool) ==
    EgmFromArrays([prm EXCEPT !.hNrm = nxt.hNrm],
                  solve_egm_step(EgmGrid(p.aXtraGrid, prm.BoroCnstNat, prm.mNrmMin),
                                 prm.mNrmMin, prm.DiscFacEff, p.Rfree, p.PermGroFac,
                                 p.IncShkDstn, nxt),
                  nxt, p, ExtrapBool)

\* ... the grid and the EGM step from the prepared quantities, ...
EgmFromPrepared(prm, nxt, p, ExtrapBool) ==
    EgmFromArrays(prm,
                  solve_egm_step(EgmGrid(p.aXtraGrid, prm.BoroCnstNat, prm.mNrmMin),
                                 prm.mNrmMin, prm.DiscFacEff, p.Rfree, p.PermGroFac,
                                 p.IncShkDstn, nxt),
                  nxt, p, ExtrapBool)

\* ... and the whole call.
endogenous_grid_method(nxt, p, ExtrapBool) ==
    EgmFromPrepared(prepare_to_solve(nxt, p), nxt, p, ExtrapBool)

\* _build_cfunc_mom from "Moderation ratio and derivatives" on: the node
\* values of omega and chi and their slopes in mu, the interpolants and the
\* wrapper, given the MPC vector.
moderation_from_mpc(MPC, cNrm, mNrm, mNrmMin, hNrm, MPCmin, MPCmax, CubicBool, optimist, pessimist) ==
    LET n == Len(mNrm)
        mNrmEx == [i \in 1..n |-> Sub(mNrm[i], mNrmMin)]
        hNrmEx == Add(hNrm, mNrmMin)
        mu == [i \in 1..n |-> log_mnrm_ex(mNrm[i], mNrmMin)]
        modRte == [i \in 1..n |-> moderate(mNrm[i], optimist.cFunc, cNrm[i], pessimist.cFunc)]
        modRteMu == [i \in 1..n |->
                      Div(Mul(mNrmEx[i], Sub(MPC[i], MPCmin)), Mul(MPCmin, hNrmEx))]
        logitModRte == [i \in 1..n |-> logit_moderate(modRte[i])]
        logitModRteMu == [i \in 1..n |->
                           Div(modRteMu[i], Mul(modRte[i], Sub(Scale, modRte[i])))]
        fs == construct_mom_interpolants(mu, modRte, modRteMu, logitModRte,
                                         logitModRteMu, CubicBool)
    IN  TransformedFunctionMoM(mNrmMin, fs.modRteFunc, fs.logitModRteFunc,
                               optimist.cFunc, pessimist.cFunc, MPCmin, MPCmax)

\* _build_cfunc_mom
build_cfunc_mom(DiscFacEff, Rfree, PermGroFac, IncShkDstn, nxt, aNrm, cNrm, mNrm, mNrmMin, hNrm, MPCmin, MPCmax, CubicBool, optimist, pessimist) ==
    moderation_from_mpc(MPCVector(DiscFacEff, Rfree, PermGroFac, IncShkDstn, nxt, aNrm,
                                  cNrm),
                        cNrm, mNrm, mNrmMin, hNrm, MPCmin, MPCmax, CubicBool, optimist,
                        pessimist)

\* _build_cfunc_mom_cusp, the LOW REGION block: the interpolants of the
\* moderation ratio against the tighter bound over the nodes below the cusp.
cusp_low_region(MPC, cNrm, mNrm, mu, low_mask, mNrmMin, MPCmin, MPCmax, CubicBool) ==
    LET mNrm_low == MaskSel(mNrm, low_mask)
        cNrm_low == MaskSel(cNrm, low_mask)
        MPC_low == MaskSel(MPC, low_mask)
        mu_low == MaskSel(mu, low_mask)
        nl == Len(mNrm_low)
        modRte_low == [i \in 1..nl |->
                        moderate_tight(mNrm_low[i], mNrmMin, cNrm_low[i], MPCmin, MPCmax)]
        modRteMu_low == [i \in 1..nl |-> Div(Sub(MPC_low[i], MPCmin), Sub(MPCmax, MPCmin))]
        logitModRte_low == [i \in 1..nl |-> logit_moderate(modRte_low[i])]
        logitModRteMu_low == [i \in 1..nl |->
                               Div(modRteMu_low[i],
                                   Mul(modRte_low[i], Sub(Scale, modRte_low[i])))]
    IN  construct_mom_interpolants(mu_low, modRte_low, modRteMu_low, logitModRte_low,
                                   logitModRteMu_low, CubicBool)

\* _build_cfunc_mom_cusp, the HIGH REGION block: standard moderation over
\* the nodes from the cusp upwards.
cusp_high_region(MPC, cNrm, mNrm, mNrmEx, mu, high_mask, MPCmin, hNrmEx, CubicBool, optimist, pessimist) ==
    LET mNrm_high == MaskSel(mNrm, high_mask)
        cNrm_high == MaskSel(cNrm, high_mask)
        MPC_high == MaskSel(MPC, high_mask)
        mNrmEx_high == MaskSel(mNrmEx, high_mask)
        mu_high == MaskSel(mu, high_mask)
        nh == Len(mNrm_high)
        modRte_high == [i \in 1..nh |->
                         moderate(mNrm_high[i], optimist.cFunc, cNrm_high[i], pessimist.cFunc)]
        modRteMu_high == [i \in 1..nh |->
                           Div(Mul(mNrmEx_high[i], Sub(MPC_high[i], MPCmin)),
                               Mul(MPCmin, hNrmEx))]
        logitModRte_high == [i \in 1..nh |-> logit_moderate(modRte_high[i])]
        logitModRteMu_high == [i \in 1..nh |->
                                Div(modRteMu_high[i],
                                    Mul(modRte_high[i], Sub(Scale, modRte_high[i])))]
    IN  construct_mom_interpolants(mu_high, modRte_high, modRteMu_high,
                                   logitModRte_high, logitModRteMu_high, CubicBool)

\* _build_cfunc_mom_cusp after the fallback check: both regions and the wrapper.
cusp_from_regions(low, high, mNrmMin, mNrmCusp, MPCmin, MPCmax, optimist, pessimist, tighter) ==
    TransformedFunctionMoMCusp(mNrmMin, mNrmCusp, low.modRteFunc, low.logitModRteFunc,
                               high.modRteFunc, high.logitModRteFunc, optimist.cFunc,
                               pessimist.cFunc, tighter.cFunc, MPCmin, MPCmax)

cusp_from_mpc(MPC, cNrm, mNrm, low_mask, high_mask, mNrmMin, mNrmCusp, hNrm, MPCmin, MPCmax, CubicBool, optimist, pessimist, tighter) ==
    LET n == Len(mNrm)
        mNrmEx == [i \in 1..n |-> Sub(mNrm[i], mNrmMin)]
        hNrmEx == Add(hNrm, mNrmMin)
        mu == [i \in 1..n |-> log_mnrm_ex(mNrm[i], mNrmMin)]
    IN  cusp_from_regions(
            cusp_low_region(MPC, cNrm, mNrm, mu, low_mask, mNrmMin, MPCmin, MPCmax,
                            CubicBool),
            cusp_high_region(MPC, cNrm, mNrm, mNrmEx, mu, high_mask, MPCmin, hNrmEx,
                             CubicBool, optimist, pessimist),
            mNrmMin, mNrmCusp, MPCmin, MPCmax, optimist, pessimist, tighter)

\* A faulty variant of _build_cfunc_mom_cusp that takes the fallback
\* whatever the grid.
build_cfunc_mom_cusp_fallback(DiscFacEff, Rfree, PermGroFac, IncShkDstn, nxt, aNrm, cNrm, mNrm, mNrmMin, hNrm, MPCmin, MPCmax, CubicBool, optimist, pessimist, tighter) ==
    build_cfunc_mom(DiscFacEff, Rfree, PermGroFac, IncShkDstn, nxt, aNrm, cNrm, mNrm,
                    mNrmMin, hNrm, MPCmin, MPCmax, CubicBool, optimist, pessimist)

\* _build_cfunc_mom_cusp from the fallback check on, given the MPC vector
\* either builder computes: _build_cfunc_mom's result when one side of the
\* cusp holds no node, both regions otherwise.
cusp_or_standard(MPC, cNrm, mNrm, low_mask, high_mask, mNrmMin, mNrmCusp, hNrm, MPCmin, MPCmax, CubicBool, optimist, pessimist, tighter) ==
    IF ~AnyTrue(low_mask) \/ ~AnyTrue(high_mask)
    THEN moderation_from_mpc(MPC, cNrm, mNrm, mNrmMin, hNrm, MPCmin, MPCmax, CubicBool,
                             optimist, pessimist)
    ELSE cusp_from_mpc(MPC, cNrm, mNrm, low_mask, high_mask, mNrmMin, mNrmCusp, hNrm,
                       MPCmin, MPCmax, CubicBool, optimist, pessimist, tighter)

\* _build_cfunc_mom_cusp: the grid is split at the cusp; when one side of
\* the cusp holds no node the standard builder's result is returned.
build_cfunc_mom_cusp(DiscFacEff, Rfree, PermGroFac, IncShkDstn, nxt, aNrm, cNrm, mNrm, mNrmMin, hNrm, MPCmin, MPCmax, CubicBool, optimist, pessimist, tighter) ==
    LET mNrmCusp == calc_cusp_point(hNrm, mNrmMin, MPCmin, MPCmax)
        low_mask == [i \in 1..Len(mNrm) |-> Lt(mNrm[i], mNrmCusp)]
        high_mask == [i \in 1..Len(mNrm) |-> ~low_mask[i]]
    IN  cusp_or_standard(MPCVector(DiscFacEff, Rfree, PermGroFac, IncShkDstn, nxt, aNrm,
                                   cNrm),
                         cNrm, mNrm, low_mask, high_mask, mNrmMin, mNrmCusp, hNrm,
                         MPCmin, MPCmax, CubicBool, optimist, pessimist, tighter)

\* ------------------------------------------------------------------------
\* Extension 2: stochastic rate of return
\* ------------------------------------------------------------------------

\* inner = DiscFac * E[R^(1-CRRA)] as calc_stochastic_mpc computes it.
stochastic_inner(DiscFac, RiskyAvg, RiskyStd) ==
    LET r == Div(RiskyStd, RiskyAvg)
        variance_ratio == Mul(r, r)
        log_var == Log1p(variance_ratio)
        exponent == Div(Mul(Mul((1 - CRRA) * Scale, -CRRA * Scale), log_var), 2 * Scale)
        E_R_power == Mul(FToFix(FPow(FFromFix(RiskyAvg), 1 - CRRA)), Exp(exponent))
    IN  Mul(DiscFac, E_R_power)

\* calc_stochastic_mpc(DiscFac, CRRA, RiskyAvg, RiskyStd)
\* The message of the ValueError, without the value of inner it quotes.
InnerOutOfRangeMsg == "Invalid parameters: DiscFac * E[R^{1-CRRA}] not in (0,1)"

\* A faulty variant of the range check that lets the end points 0 and 1 pass.
stochastic_mpc_of_open(inner) ==
    IF inner # NaN /\ (inner < 0 \/ inner > Scale)
    THEN Threw("ValueError", InnerOutOfRangeMsg)
    ELSE Returned(Sub(Scale, RootCRRA(inner)))

\* The range check on inner and the return value 1 - inner^(1/CRRA); a NaN
\* inner fails neither comparison.
stochastic_mpc_of(inner) ==
    IF inner # NaN /\ (inner <= 0 \/ inner >= Scale)
    THEN Threw("ValueError", InnerOutOfRangeMsg)
    ELSE Returned(Sub(Scale, RootCRRA(inner)))

calc_stochastic_mpc(DiscFac, RiskyAvg, RiskyStd) ==
    stochastic_mpc_of(stochastic_inner(DiscFac, RiskyAvg, RiskyStd))

\* ------------------------------------------------------------------------
\* The solvers as a state machine
\* ------------------------------------------------------------------------
\* One agent solves its problem backwards, one period per solver call.  Each
\* solver call runs the steps of its body in source order; a caller then
\* evaluates the returned consumption function, or objects it constructs
\* itself from the returned pieces.

VARIABLES
    par,            \* the agent's parameters, the arguments of every solver call
    solution_next,  \* the solution handed to the solver as next period's
    pc,             \* the statement the current solver call has reached
    steps,          \* the functions the current solver call has called so far
    loc,            \* the local variables of the current solver call
    solution,       \* the solutions returned so far, the latest first
    err,            \* the exception that ended the current solver call, or ""
    obj,            \* an object the caller constructed from a returned solution
    qry,            \* the caller's latest evaluation of a consumption function
    ret             \* the caller's latest direct call of a library function

vars == << par, solution_next, pc, steps, loc, solution, err, obj, qry, ret >>

\* Number of consecutive periods solved backwards from the terminal one.
MaxPeriods == 3

\* Longest array of query points passed to one evaluation.
MaxQueryLen == 2

\* Number of query points of an evaluation: mNrmMin + 0.016 * 4^i, i < NumLadder.
NumLadder == 7

Solvers == {"method_of_moderation", "method_of_moderation_cusp",
            "method_of_moderation_stochastic_r"}

\* Transitory income 0.4 with probability 1/4 and 1.2 with probability 3/4;
\* no permanent shock.
IncShkDstns ==
    { << [p |-> Scale \div 4, PermShk |-> Scale, TranShk |-> (4 * Scale) \div 10],
         [p |-> (3 * Scale) \div 4, PermShk |-> Scale, TranShk |-> (12 * Scale) \div 10] >> }

\* End-of-period asset grids above the minimum: one that straddles the cusp
\* and two that lie on one side of it.
aXtraGrids ==
    { << Scale \div 10, Scale \div 2, 2 * Scale, 8 * Scale >>,
      << 2 * Scale, 8 * Scale >>,
      << Scale \div 10, Scale \div 2 >> }

\* Discount factors: a patient consumer's 0.96 and 1.1, outside (0,1).
DiscFacs == {(96 * Scale) \div 100, (11 * Scale) \div 10}

LivPrbs == {(98 * Scale) \div 100}

Rfrees == {(103 * Scale) \div 100}

PermGroFacs == {Scale}

BoroCnstArts == {None, 0}

\* Mean and standard deviation of the risky return: the defaults 1.08 and
\* 0.20, a high mean of 2, and means for which DiscFac * E[R^(1-CRRA)]
\* leaves (0,1).
RiskyAvgDefault == (108 * Scale) \div 100

RiskyStdDefault == (20 * Scale) \div 100

RiskyAvgs == {RiskyAvgDefault, 2 * Scale, (9 * Scale) \div 10, -RiskyAvgDefault}

RiskyStds == {RiskyStdDefault}

\* The parameter records an agent can be constructed with; the return
\* parameters belong to the stochastic-return agent only, and the discount
\* factor outside (0,1) is tried with one configuration per solver.
Params ==
    { q \in [solver : Solvers, CubicBool : BOOLEAN, BoroCnstArt : BoroCnstArts,
             DiscFac : DiscFacs, LivPrb : LivPrbs, Rfree : Rfrees,
             PermGroFac : PermGroFacs, IncShkDstn : IncShkDstns,
             aXtraGrid : aXtraGrids, RiskyAvg : RiskyAvgs, RiskyStd : RiskyStds] :
        /\ q.solver # "method_of_moderation_stochastic_r"
              => (q.RiskyAvg = RiskyAvgDefault /\ q.RiskyStd = RiskyStdDefault)
        /\ q.DiscFac >= Scale
              => (~q.CubicBool /\ q.BoroCnstArt = None /\ Len(q.aXtraGrid) = 4) }

Nothing == [kind |-> "Nothing"]

NoLoc ==
    [MPCmin_stochastic |-> None,
     prm |-> [DiscFacEff |-> None, hNrm |-> None, BoroCnstNat |-> None,
              mNrmMin |-> None, MPCmin |-> None, MPCmax |-> None],
     bnd |-> [Optimist |-> [cFunc |-> Nothing], Pessimist |-> [cFunc |-> Nothing],
              TighterUpperBound |-> [cFunc |-> Nothing]],
     bnd_stoch |-> [Optimist |-> [cFunc |-> Nothing], Pessimist |-> [cFunc |-> Nothing],
                    TighterUpperBound |-> [cFunc |-> Nothing]],
     egm |-> [aNrm |-> << >>, cNrm |-> << >>, mNrm |-> << >>, EndOfPrdvP |-> << >>],
     cFunc |-> Nothing]

NoQuery == [fn |-> "", m |-> << >>, exc |-> "", msg |-> "", out |-> << >>]

NoCall == [fn |-> ""]

Init ==
    /\ par \in Params
    /\ solution_next = solution_terminal
    /\ pc = "start"
    /\ steps = << >>
    /\ loc = NoLoc
    /\ solution = << >>
    /\ err = ""
    /\ obj = Nothing
    /\ qry = NoQuery
    /\ ret = NoCall

IsStochR == par.solver = "method_of_moderation_stochastic_r"

IsCusp == par.solver = "method_of_moderation_cusp"

\* method_of_moderation_stochastic_r, first statement:
\* MPCmin_stochastic = calc_stochastic_mpc(DiscFac, CRRA, RiskyAvg, RiskyStd)
StochasticMpcStep ==
    /\ pc = "start"
    /\ IsStochR
    /\ ret.fn = ""
    /\ \E r \in {calc_stochastic_mpc(par.DiscFac, par.RiskyAvg, par.RiskyStd)} :
          IF r.exc # ""
          THEN /\ pc' = "raised"
               /\ err' = r.exc
               /\ loc' = loc
          ELSE /\ pc' = "stochastic_mpc"
               /\ err' = err
               /\ loc' = [loc EXCEPT !.MPCmin_stochastic = r.val]
    /\ steps' = Append(steps, "calc_stochastic_mpc")
    /\ UNCHANGED << par, solution_next, solution, obj, qry, ret >>

\* (...) = prepare_to_solve(solution_next, IncShkDstn, LivPrb, DiscFac, ...)
PrepareStep ==
    /\ pc = (IF IsStochR THEN "stochastic_mpc" ELSE "start")
    /\ ret.fn = ""
    /\ loc' = [loc EXCEPT !.prm = prepare_to_solve(solution_next, par)]
    /\ pc' = "prepared"
    /\ steps' = Append(steps, "prepare_to_solve")
    /\ UNCHANGED << par, solution_next, solution, err, obj, qry, ret >>

\* optimist, pessimist, tighterUpperBound = make_behavioral_bounds(...); the
\* stochastic-return solver also builds the bounds with the stochastic MPC.
BoundsStep ==
    /\ pc = "prepared"
    /\ loc' = [loc EXCEPT
                 !.bnd = UnpackBounds(
                             make_behavioral_bounds(loc.prm.hNrm, loc.prm.mNrmMin,
                                                    loc.prm.MPCmin, loc.prm.MPCmax)),
                 !.bnd_stoch =
                     IF IsStochR
                     THEN UnpackBounds(
                              make_behavioral_bounds(loc.prm.hNrm, loc.prm.mNrmMin,
                                                     loc.MPCmin_stochastic,
                                                     loc.prm.MPCmax))
                     ELSE loc.bnd_stoch]
    /\ pc' = "bounded"
    /\ steps' = Append(steps, "make_behavioral_bounds")
    /\ UNCHANGED << par, solution_next, solution, err, obj, qry, ret >>

\* aNrm, cNrm, mNrm, EndOfPrdvP = solve_egm_step(...)
EgmStep ==
    /\ pc = "bounded"
    /\ loc' = [loc EXCEPT
                 !.egm = solve_egm_step(par.aXtraGrid, loc.prm.mNrmMin,
                                        loc.prm.DiscFacEff, par.Rfree, par.PermGroFac,
                                        par.IncShkDstn, solution_next)]
    /\ pc' = "egm"
    /\ steps' = Append(steps, "solve_egm_step")
    /\ UNCHANGED << par, solution_next, solution, err, obj, qry, ret >>

\* cFunc = _build_cfunc_mom(...), or _build_cfunc_mom_cusp(...) in the cusp
\* solver.
BuildCFuncStep ==
    /\ pc = "egm"
    /\ loc' = [loc EXCEPT
                 !.cFunc =
                     IF IsCusp
                     THEN build_cfunc_mom_cusp(loc.prm.DiscFacEff, par.Rfree,
                              par.PermGroFac, par.IncShkDstn, solution_next,
                              loc.egm.aNrm, loc.egm.cNrm, loc.egm.mNrm,
                              loc.prm.mNrmMin, loc.prm.hNrm, loc.prm.MPCmin,
                              loc.prm.MPCmax, par.CubicBool, loc.bnd.Optimist,
                              loc.bnd.Pessimist, loc.bnd.TighterUpperBound)
                     ELSE build_cfunc_mom(loc.prm.DiscFacEff, par.Rfree,
                              par.PermGroFac, par.IncShkDstn, solution_next,
                              loc.egm.aNrm, loc.egm.cNrm, loc.egm.mNrm,
                              loc.prm.mNrmMin, loc.prm.hNrm, loc.prm.MPCmin,
                              loc.prm.MPCmax, par.CubicBool, loc.bnd.Optimist,
                              loc.bnd.Pessimist)]
    /\ pc' = "built"
    /\ steps' = Append(steps, IF IsCusp THEN "_build_cfunc_mom_cusp"
                              ELSE "_build_cfunc_mom")
    /\ UNCHANGED << par, solution_next, solution, err, obj, qry, ret >>

\* ConsumerSolution with the stochastic MPC in place of MPCmin on the
\* stochastic-return solver's solution.
ConsumerSolutionStochasticMPCmin ==
    [cFunc |-> loc.cFunc,
     vFunc |-> "NullFunc",
     vPfunc |-> "MargValueFuncCRRA",
     vPPfunc |-> IF par.CubicBool THEN "MargMargValueFuncCRRA" ELSE "NullFunc",
     mNrmMin |-> loc.prm.mNrmMin, hNrm |-> loc.prm.hNrm,
     MPCmin |-> IF IsStochR THEN loc.MPCmin_stochastic ELSE loc.prm.MPCmin,
     MPCmax |-> loc.prm.MPCmax,
     Optimist |-> loc.bnd.Optimist, Pessimist |-> loc.bnd.Pessimist,
     TighterUpperBound |-> loc.bnd.TighterUpperBound,
     mNrmCusp |-> IF IsCusp
                  THEN calc_cusp_point(loc.prm.hNrm, loc.prm.mNrmMin, loc.prm.MPCmin,
                                       loc.prm.MPCmax)
                  ELSE None,
     MPCmin_stochastic |-> loc.MPCmin_stochastic,
     MPCmin_deterministic |-> IF IsStochR THEN loc.prm.MPCmin ELSE None,
     OptimistStochastic |-> loc.bnd_stoch.Optimist,
     PessimistStochastic |-> loc.bnd_stoch.Pessimist]

\* The ConsumerSolution a solver packages and returns.
ConsumerSolution ==
    [cFunc |-> loc.cFunc,
     vFunc |-> "NullFunc",
     vPfunc |-> "MargValueFuncCRRA",
     vPPfunc |-> IF par.CubicBool THEN "MargMargValueFuncCRRA" ELSE "NullFunc",
     mNrmMin |-> loc.prm.mNrmMin, hNrm |-> loc.prm.hNrm,
     MPCmin |-> loc.prm.MPCmin, MPCmax |-> loc.prm.MPCmax,
     Optimist |-> loc.bnd.Optimist, Pessimist |-> loc.bnd.Pessimist,
     TighterUpperBound |-> loc.bnd.TighterUpperBound,
     mNrmCusp |-> IF IsCusp
                  THEN calc_cusp_point(loc.prm.hNrm, loc.prm.mNrmMin, loc.prm.MPCmin,
                                       loc.prm.MPCmax)
                  ELSE None,
     MPCmin_stochastic |-> loc.MPCmin_stochastic,
     MPCmin_deterministic |-> IF IsStochR THEN loc.prm.MPCmin ELSE None,
     OptimistStochastic |-> loc.bnd_stoch.Optimist,
     PessimistStochastic |-> loc.bnd_stoch.Pessimist]

\* The marginal value functions, the packaging of the solution and the
\* return; the agent stores the returned solution in front of the later
\* periods'.
ReturnStep ==
    /\ pc = "built"
    /\ solution' = << ConsumerSolution >> \o solution
    /\ pc' = "returned"
    /\ steps' = Append(steps, "ConsumerSolution")
    /\ UNCHANGED << par, solution_next, loc, err, obj, qry, ret >>

\* Backward induction: the solution just returned becomes solution_next of
\* the next solver call.
NextPeriod ==
    /\ pc = "returned"
    /\ qry.fn = ""
    /\ obj.kind = "Nothing"
    /\ Len(solution) < MaxPeriods
    /\ solution_next' = solution[1]
    /\ pc' = "start"
    /\ steps' = << >>
    /\ loc' = NoLoc
    /\ UNCHANGED << par, solution, err, obj, qry, ret >>

\* ------------------------------------------------------------------------
\* The caller: evaluations and direct constructions
\* ------------------------------------------------------------------------

\* The consumption function the caller evaluates: the object it constructed,
\* or else the cFunc of the latest solution.
Target == IF obj.kind # "Nothing" THEN obj ELSE solution[1].cFunc

\* Distances of the query points from mNrmMin: from 0.016 upwards, so that
\* they reach from below the first node to far beyond the last one.
QueryOffsets == {((16 * Scale) \div 1000) * 4 ^ i : i \in 0..(NumLadder - 1)}

\* Query points of f, all above its mNrmMin; for a cusp function the cusp
\* itself is one of them.
QueryPoints(f) ==
    {f.mNrmMin + d : d \in QueryOffsets}
        \cup (IF f.kind = "TransformedFunctionMoMCusp" /\ IsNum(f.mNrmCusp)
              THEN {f.mNrmCusp} ELSE {})

\* The arrays m an evaluation is called with: increasing, at most MaxQueryLen
\* points.
QueryArrays(f) ==
    {m \in UNION {[1..n -> QueryPoints(f)] : n \in 1..MaxQueryLen} :
        StrictlyIncreasing(m)}

\* f(m) for the array m: the exception raised, if any, and the array returned.
EvalCall(f, m) ==
    IF f.kind = "TransformedFunctionMoMCusp"
    THEN [exc |-> "", msg |-> "", out |-> CuspCall(f, m)]
    ELSE [exc |-> "", msg |-> "", out |-> [i \in 1..Len(m) |-> MoMCall(f, m[i])]]

\* f.derivative(m) for the array m.
\* The elementwise results as one outcome: the exception, raised before any
\* element is computed, or the array of values.
Gather(d) ==
    IF d[1].exc # "" THEN [exc |-> d[1].exc, msg |-> d[1].msg, out |-> << >>]
    ELSE [exc |-> "", msg |-> "", out |-> [i \in 1..Len(d) |-> d[i].val]]

EvalDerivative(f, m) ==
    IF f.kind = "TransformedFunctionMoMCusp"
    THEN [exc |-> "", msg |-> "", out |-> CuspDerivative(f, m)]
    ELSE Gather([i \in 1..Len(m) |-> MoMDerivative(f, m[i])])

\* What the caller keeps of an evaluation: the method, the argument, and the
\* exception raised or the array returned.
Query(fn, m, r) == [fn |-> fn, m |-> m, exc |-> r.exc, msg |-> r.msg, out |-> r.out]

\* A faulty variant of __call__ that forms m - mNrmMin in the caller's array
\* (m -= self.mNrmMin) instead of in a new one.
CallInPlace ==
    /\ pc = "returned"
    /\ qry.fn = ""
    /\ \E m \in QueryArrays(Target) :
          qry' = Query("__call__", [i \in 1..Len(m) |-> m[i] - Target.mNrmMin],
                       EvalCall(Target, m))
    /\ UNCHANGED << par, solution_next, pc, steps, loc, solution, err, obj, ret >>

\* c = cFunc(m)
Call ==
    /\ pc = "returned"
    /\ qry.fn = ""
    /\ \E m \in QueryArrays(Target) :
          qry' = Query("__call__", m, EvalCall(Target, m))
    /\ UNCHANGED << par, solution_next, pc, steps, loc, solution, err, obj, ret >>

\* mpc = cFunc.derivative(m)
Derivative ==
    /\ pc = "returned"
    /\ qry.fn = ""
    /\ \E m \in QueryArrays(Target) :
          qry' = Query("derivative", m, EvalDerivative(Target, m))
    /\ UNCHANGED << par, solution_next, pc, steps, loc, solution, err, obj, ret >>

\* A stand-in omega-interpolant unrelated to the solution: omega = 1/2.
OtherModRteFunc ==
    LinearInterp(<< 0, Scale >>, << Scale \div 2, Scale \div 2 >>, None, None, TRUE)

\* The caller constructs a TransformedFunctionMoM of its own from the pieces
\* of the returned one: the same chi-interpolant and linear bounds, but
\* possibly another omega-interpolant, and bounds passed as plain callables
\* (lambda m: slope * (m + intercept)) instead of PerfForesightFunc objects.
Construct ==
    /\ pc = "returned"
    /\ qry.fn = ""
    /\ obj.kind = "Nothing"
    /\ solution[1].cFunc.kind = "TransformedFunctionMoM"
    /\ LET f == solution[1].cFunc
       IN  \E modRteFunc \in {f.modRteFunc, OtherModRteFunc},
              optimist_func \in {f.optimist_func,
                                 LambdaFunc(f.optimist_func.intercept,
                                            f.optimist_func.slope)},
              pessimist_func \in {f.pessimist_func,
                                  LambdaFunc(f.pessimist_func.intercept,
                                             f.pessimist_func.slope)} :
              obj' = TransformedFunctionMoM(f.mNrmMin, modRteFunc, f.logitModRteFunc,
                                            optimist_func, pessimist_func,
                                            f.MPCmin, f.MPCmax)
    /\ UNCHANGED << par, solution_next, pc, steps, loc, solution, err, qry, ret >>

\* Node abscissae and values the caller passes to _create_interpolation.
InterpXLists == { << 0, Scale >>, << -Scale, 0, 2 * Scale >> }

InterpValues == {0, Scale \div 2}

\* interp = _create_interpolation(cubic_bool, x_list, y_list, dydx_list)
CreateInterpolationCall ==
    /\ pc = "start"
    /\ steps = << >>
    /\ solution = << >>
    /\ ret.fn = ""
    /\ \E cubic_bool \in BOOLEAN, x_list \in InterpXLists :
          \E y_list \in [1..Len(x_list) -> InterpValues],
             dydx_list \in {NoneList} \cup [1..Len(x_list) -> InterpValues] :
             ret' = [fn |-> "_create_interpolation", cubic_bool |-> cubic_bool,
                     x_list |-> x_list, y_list |-> y_list, dydx_list |-> dydx_list,
                     out |-> create_interpolation(cubic_bool, x_list, y_list,
                                                  dydx_list, None, None)]
    /\ UNCHANGED << par, solution_next, pc, steps, loc, solution, err, obj, qry >>

\* Arguments of the caller's direct calls of calc_stochastic_mpc; they
\* include inner = 0 (DiscFac = 0) and inner = 1 (DiscFac = RiskyAvg = 1,
\* RiskyStd = 0).
DirectDiscFacs == {0, Scale} \cup DiscFacs

DirectRiskyAvgs == {Scale} \cup RiskyAvgs

DirectRiskyStds == {0} \cup RiskyStds

\* mpc = calc_stochastic_mpc(DiscFac, CRRA, RiskyAvg, RiskyStd)
CalcStochasticMpcCall ==
    /\ pc = "start"
    /\ steps = << >>
    /\ solution = << >>
    /\ ret.fn = ""
    /\ \E DiscFac \in DirectDiscFacs, RiskyAvg \in DirectRiskyAvgs,
          RiskyStd \in DirectRiskyStds :
          ret' = [fn |-> "calc_stochastic_mpc", DiscFac |-> DiscFac,
                  RiskyAvg |-> RiskyAvg, RiskyStd |-> RiskyStd,
                  out |-> calc_stochastic_mpc(DiscFac, RiskyAvg, RiskyStd)]
    /\ UNCHANGED << par, solution_next, pc, steps, loc, solution, err, obj, qry >>

\* Artificial borrowing limits of the caller's direct calls of
\* prepare_to_solve: none, tighter than the natural one, looser than it, and
\* equal to it.
DirectBoroCnstArts ==
    BoroCnstArts
        \cup {-5 * Scale,
               calc_boro_const_nat(solution_next.mNrmMin, par.IncShkDstn, par.Rfree,
                                   par.PermGroFac)}

\* (DiscFacEff, hNrm, BoroCnstNat, mNrmMin, MPCmin, MPCmax) =
\*     prepare_to_solve(solution_next, IncShkDstn, LivPrb, DiscFac, CRRA, Rfree,
\*                      PermGroFac, BoroCnstArt)
PrepareToSolveCall ==
    /\ pc = "start"
    /\ steps = << >>
    /\ solution = << >>
    /\ ret.fn = ""
    /\ \E BoroCnstArt \in DirectBoroCnstArts :
          ret' = [fn |-> "prepare_to_solve", BoroCnstArt |-> BoroCnstArt,
                  out |-> prepare_to_solve(solution_next,
                                           [par EXCEPT !.BoroCnstArt = BoroCnstArt])]
    /\ UNCHANGED << par, solution_next, pc, steps, loc, solution, err, obj, qry >>

\* Moderation ratios of the caller's direct calls of logit_moderate, all
\* inside (0,1): from 0.02 to 0.98.
DirectOmegas ==
    {(2 * Scale) \div 100, Scale \div 10, Scale \div 4, Scale \div 2,
     (3 * Scale) \div 4, (9 * Scale) \div 10, (98 * Scale) \div 100}

\* Arguments of the caller's direct calls of expit_moderate, all finite:
\* from -4 to 4, where the arithmetic resolves 1 + exp(-chi); 40, where
\* exp(-chi) is below the spacing of numbers at 1; and -800, where exp(-chi)
\* overflows.
DirectChis ==
    {-4 * Scale, -2 * Scale, -Scale, 0, Scale, 2 * Scale, 4 * Scale, 40 * Scale,
     -800 * Scale}

\* chi = logit_moderate(omega)
LogitModerateCall ==
    /\ pc = "start"
    /\ steps = << >>
    /\ solution = << >>
    /\ ret.fn = ""
    /\ \E omega \in DirectOmegas :
          ret' = [fn |-> "logit_moderate", omega |-> omega,
                  out |-> logit_moderate(omega)]
    /\ UNCHANGED << par, solution_next, pc, steps, loc, solution, err, obj, qry >>

\* omega = expit_moderate(chi)
ExpitModerateCall ==
    /\ pc = "start"
    /\ steps = << >>
    /\ solution = << >>
    /\ ret.fn = ""
    /\ \E chi \in DirectChis :
          ret' = [fn |-> "expit_moderate", chi |-> chi, out |-> expit_moderate(chi)]
    /\ UNCHANGED << par, solution_next, pc, steps, loc, solution, err, obj, qry >>

\* Log excess resources grids of the caller's direct calls of
\* _construct_mom_interpolants: one, two and three strictly increasing nodes.
DirectMus == { << 0 >>, << -Scale, Scale \div 2 >>,
               << -(12 * Scale) \div 10, (3 * Scale) \div 10, (15 * Scale) \div 10 >> }

\* Moderation ratios and their slopes in mu at the nodes of those calls.
DirectModRtes == {Scale \div 4, Scale \div 2}

DirectModRteMus == {Scale \div 10, -Scale \div 5}

\* modRteFunc, logitModRteFunc = _construct_mom_interpolants(mu, modRte,
\*     modRteMu, logitModRte, logitModRteMu, CubicBool), with the chi values
\* and slopes the builders derive from the omega ones.
ConstructMomInterpolantsCall ==
    /\ pc = "start"
    /\ steps = << >>
    /\ solution = << >>
    /\ ret.fn = ""
    /\ \E CubicBool \in BOOLEAN, mu \in DirectMus :
          \E modRte \in [1..Len(mu) -> DirectModRtes],
             modRteMu \in [1..Len(mu) -> DirectModRteMus] :
             LET logitModRte == [i \in 1..Len(mu) |-> logit_moderate(modRte[i])]
                 logitModRteMu ==
                     [i \in 1..Len(mu) |->
                         Div(modRteMu[i], Mul(modRte[i], Sub(Scale, modRte[i])))]
             IN  ret' = [fn |-> "_construct_mom_interpolants", CubicBool |-> CubicBool,
                         mu |-> mu, modRte |-> modRte, modRteMu |-> modRteMu,
                         logitModRte |-> logitModRte, logitModRteMu |-> logitModRteMu,
                         out |-> construct_mom_interpolants(mu, modRte, modRteMu,
                                                            logitModRte, logitModRteMu,
                                                            CubicBool)]
    /\ UNCHANGED << par, solution_next, pc, steps, loc, solution, err, obj, qry >>

\* A faulty variant of the call in which the gridpoint at the constraint is
\* inserted into the caller's array.
EndogenousGridMethodCallInPlace ==
    /\ pc = "start"
    /\ steps = << >>
    /\ solution = << >>
    /\ ret.fn = ""
    /\ \E BoroCnstArt \in DirectBoroCnstArts, ExtrapBool \in BOOLEAN :
          LET p == [par EXCEPT !.BoroCnstArt = BoroCnstArt]
              prm == prepare_to_solve(solution_next, p)
          IN  ret' = [fn |-> "endogenous_grid_method", BoroCnstArt |-> BoroCnstArt,
                      ExtrapBool |-> ExtrapBool,
                      aXtraGrid |-> EgmGrid(par.aXtraGrid, prm.BoroCnstNat, prm.mNrmMin),
                      out |-> endogenous_grid_method(solution_next, p, ExtrapBool)]
    /\ UNCHANGED << par, solution_next, pc, steps, loc, solution, err, obj, qry >>

\* solution = endogenous_grid_method(solution_next, IncShkDstn, LivPrb,
\*     DiscFac, CRRA, Rfree, PermGroFac, BoroCnstArt, aXtraGrid, vFuncBool,
\*     CubicBool, ExtrapBool), called by the caller with the agent's
\* parameters, vFuncBool = False and a borrowing limit of its own; aXtraGrid
\* is the caller's array after the call.
EndogenousGridMethodCall ==
    /\ pc = "start"
    /\ steps = << >>
    /\ solution = << >>
    /\ ret.fn = ""
    /\ \E BoroCnstArt \in DirectBoroCnstArts, ExtrapBool \in BOOLEAN :
          ret' = [fn |-> "endogenous_grid_method", BoroCnstArt |-> BoroCnstArt,
                  ExtrapBool |-> ExtrapBool, aXtraGrid |-> par.aXtraGrid,
                  out |-> endogenous_grid_method(solution_next,
                                                 [par EXCEPT !.BoroCnstArt = BoroCnstArt],
                                                 ExtrapBool)]
    /\ UNCHANGED << par, solution_next, pc, steps, loc, solution, err, obj, qry >>

\* The caller drops the result of its latest evaluation or direct call.
Forget ==
    /\ qry.fn # "" \/ ret.fn # ""
    /\ qry' = NoQuery
    /\ ret' = NoCall
    /\ UNCHANGED << par, solution_next, pc, steps, loc, solution, err, obj >>

Next ==
    \/ StochasticMpcStep
    \/ PrepareStep
    \/ BoundsStep
    \/ EgmStep
    \/ BuildCFuncStep
    \/ ReturnStep
    \/ NextPeriod
    \/ Call
    \/ Derivative
    \/ Construct
    \/ CreateInterpolationCall
    \/ CalcStochasticMpcCall
    \/ PrepareToSolveCall
    \/ LogitModerateCall
    \/ ExpitModerateCall
    \/ ConstructMomInterpolantsCall
    \/ EndogenousGridMethodCall
    \/ Forget

Spec == Init /\ [][Next]_vars

\* ------------------------------------------------------------------------
\* Properties
\* ------------------------------------------------------------------------

\* a <= b as numpy evaluates it: False as soon as either side is NaN.
Le(a, b) == a # NaN /\ b # NaN /\ a <= b

\* The solution returned last; while the caller has constructed no object of
\* its own, an evaluation in qry is an evaluation of Latest.cFunc.
Latest == solution[1]

SolvedCall == qry.fn = "__call__" /\ obj.kind = "Nothing"

SolvedDerivative == qry.fn = "derivative" /\ obj.kind = "Nothing"

StandardSolver == par.solver = "method_of_moderation"

\* The parameters satisfy the model's domain: survival probability, discount
\* factor and their product in (0,1).
InUnit(x) == 0 < x /\ x < Scale

ParamsInDomain ==
    InUnit(par.LivPrb) /\ InUnit(par.DiscFac) /\ InUnit(Mul(par.DiscFac, par.LivPrb))

\* C1: for every m > mNrmMin, the consumption function returned by
\* method_of_moderation lies between the pessimist's and the optimist's:
\* Pessimist.cFunc(m) <= cFunc(m) <= Optimist.cFunc(m), inside the grid and in
\* both extrapolation regions.
C1_BoundsInvariant ==
    (SolvedCall /\ StandardSolver)
    => \A i \in 1..Len(qry.m) :
          /\ Le(PFCall(Latest.Pessimist.cFunc, qry.m[i]), qry.out[i])
          /\ Le(qry.out[i], PFCall(Latest.Optimist.cFunc, qry.m[i]))

\* C1, the failing case: the second period of a solve with linear
\* interpolation and parameters in the domain, evaluated below the first
\* gridpoint, returns NaN.
C1_NaNOutsideGrid ==
    /\ SolvedCall /\ StandardSolver /\ ParamsInDomain
    /\ ~par.CubicBool /\ Len(solution) = 2
    /\ Latest.cFunc.logitModRteFunc.y[1] = NaN
    /\ Lt(log_mnrm_ex(qry.m[1], Latest.mNrmMin), Latest.cFunc.logitModRteFunc.x[2])
    /\ qry.out[1] = NaN

\* C2: TransformedFunctionMoM.__call__(m) returns
\* f_pes(m) + omega * (f_opt(m) - f_pes(m)) with
\* omega = expit(chi(log(m - mNrmMin))), chi read from the chi-interpolant;
\* the stored omega-interpolant influences neither the value nor the
\* derivative: with any other omega-interpolant in its place both are the same.
C2_EvaluationContract ==
    (qry.fn # "" /\ Target.kind = "TransformedFunctionMoM")
    => LET f == Target
           other == [f EXCEPT !.modRteFunc = OtherModRteFunc]
           omega(m) == expit_moderate(
                           InterpEval(f.logitModRteFunc, Ln(Sub(m, f.mNrmMin))))
           f_opt(m) == PFCall(f.optimist_func, m)
           f_pes(m) == PFCall(f.pessimist_func, m)
       IN  IF qry.fn = "__call__"
           THEN /\ \A i \in 1..Len(qry.m) :
                      qry.out[i] = Add(f_pes(qry.m[i]),
                                       Mul(omega(qry.m[i]),
                                           Sub(f_opt(qry.m[i]), f_pes(qry.m[i]))))
                /\ EvalCall(other, qry.m).out = qry.out
           ELSE /\ EvalDerivative(other, qry.m).exc = qry.exc
                /\ EvalDerivative(other, qry.m).out = qry.out

\* C2, witness: a function constructed with a foreign omega-interpolant was
\* evaluated and returned a value strictly between its bounds.
C2_ForeignOmegaEvaluated ==
    /\ qry.fn = "__call__"
    /\ obj.kind = "TransformedFunctionMoM"
    /\ obj.modRteFunc = OtherModRteFunc
    /\ Lt(PFCall(obj.pessimist_func, qry.m[1]), qry.out[1])
    /\ Lt(qry.out[1], PFCall(obj.optimist_func, qry.m[1]))

\* The moderation ratio recovered from the i-th evaluation of Latest.cFunc.
RecoveredOmega(i) ==
    moderate(qry.m[i], Latest.Optimist.cFunc, qry.out[i], Latest.Pessimist.cFunc)

\* C3: for every m > mNrmMin the moderation ratio
\* omega(m) = (cFunc(m) - c_pes(m)) / (c_opt(m) - c_pes(m)) recovered from the
\* solved consumption function lies strictly in (0,1) and is increasing in m.
C3_ModerationRatio ==
    (SolvedCall /\ StandardSolver)
    => /\ \A i \in 1..Len(qry.m) :
             Lt(0, RecoveredOmega(i)) /\ Lt(RecoveredOmega(i), Scale)
       /\ \A i, j \in 1..Len(qry.m) :
             i < j => Le(RecoveredOmega(i), RecoveredOmega(j))

\* C3, the failing case: the ratio recovered beyond the last gridpoint in the
\* second period of a solve with linear interpolation is NaN.
C3_RatioNaN ==
    /\ SolvedCall /\ StandardSolver /\ ParamsInDomain
    /\ ~par.CubicBool /\ Len(solution) = 2
    /\ Len(qry.m) = 2
    /\ IsNum(RecoveredOmega(1))
    /\ RecoveredOmega(2) = NaN

\* The last augmented node of the chi-interpolant of Latest.cFunc, and the
\* evaluations that lie beyond it.
LastAugmentedNode ==
    Latest.cFunc.logitModRteFunc.x[Len(Latest.cFunc.logitModRteFunc.x)]

BeyondLastNode(i) == Lt(LastAugmentedNode, log_mnrm_ex(qry.m[i], Latest.mNrmMin))

\* C4: beyond the last augmented node the derivative of the moderated
\* consumption function is never negative, never below MPCmin, and
\* approaches MPCmin as m grows: its distance to MPCmin does not widen.
C4_MPCAsymptotics ==
    (SolvedDerivative /\ StandardSolver)
    => \A i \in 1..Len(qry.m) :
          BeyondLastNode(i)
          => /\ Le(0, qry.out[i])
             /\ Le(Latest.MPCmin, qry.out[i])
             /\ \A j \in 1..Len(qry.m) : i < j => Le(qry.out[j], qry.out[i])

\* C4, the failing case: the derivative beyond the last augmented node in
\* the second period of a solve with linear interpolation is NaN.
C4_DerivativeNaN ==
    /\ SolvedDerivative /\ StandardSolver /\ ParamsInDomain
    /\ ~par.CubicBool /\ Len(solution) = 2
    /\ BeyondLastNode(1)
    /\ qry.out[1] = NaN

\* C5: _create_interpolation raises ValueError and builds no interpolant
\* whenever cubic_bool is True and dydx_list is None; with cubic_bool False it
\* never fails and returns the linear interpolant of the nodes, the same
\* whatever dydx_list it is given.
C5_CubicNeedsDerivatives ==
    ret.fn = "_create_interpolation"
    => /\ (ret.cubic_bool /\ ret.dydx_list = NoneList)
              => (ret.out.kind = "ValueError" /\ DOMAIN ret.out = {"kind", "msg"})
       /\ ~ret.cubic_bool
              => ret.out = [kind |-> "LinearInterp", x |-> ret.x_list,
                            y |-> ret.y_list, dydx |-> NoneList, intercept |-> None,
                            slope |-> None, lower_extrap |-> TRUE]

\* C5, witness: a cubic interpolant was requested without derivatives and
\* the call raised.
C5_CubicWithoutDerivativesRaised ==
    /\ ret.fn = "_create_interpolation"
    /\ ret.cubic_bool
    /\ ret.dydx_list = NoneList
    /\ ret.out.kind = "ValueError"

\* C6: TransformedFunctionMoM.derivative(m) raises the TypeError that names
\* the missing 'derivative' method, and returns no value, whenever either
\* bounding callable has no derivative method.
C6_BoundWithoutDerivative ==
    (/\ qry.fn = "derivative"
     /\ Target.kind = "TransformedFunctionMoM"
     /\ (Target.optimist_func.kind = "Lambda" \/ Target.pessimist_func.kind = "Lambda"))
    => /\ qry.exc = "TypeError"
       /\ qry.msg = BoundNeedsDerivativeMsg
       /\ qry.out = << >>

\* C6, witness: the derivative of a function whose pessimist alone is a plain
\* callable was requested and the call raised.
C6_PessimistWithoutDerivativeRaised ==
    /\ qry.fn = "derivative"
    /\ obj.kind = "TransformedFunctionMoM"
    /\ obj.optimist_func.kind = "PerfForesightFunc"
    /\ obj.pessimist_func.kind = "Lambda"
    /\ qry.exc = "TypeError"

\* C7: when the survival probability, the discount factor, their product or
\* the patience factor lies outside (0,1), prepare_to_solve aborts with a
\* domain error: the solver's call of it raises and hands no parameters on.
C7_DomainViolationAborts ==
    (/\ \/ ~ParamsInDomain
        \/ ~InUnit(calc_patience_factor(par.Rfree, Mul(par.DiscFac, par.LivPrb)))
     /\ \E k \in 1..Len(steps) : steps[k] = "prepare_to_solve")
    => /\ pc = "raised"
       /\ err # ""
       /\ loc.prm = NoLoc.prm

\* C7, the failing case: with DiscFac * LivPrb above 1 prepare_to_solve
\* returned, and the solver holds the product unclamped.
C7_OutOfDomainPrepared ==
    /\ pc = "prepared"
    /\ err = ""
    /\ par.DiscFac > Scale
    /\ loc.prm.DiscFacEff = Mul(par.DiscFac, par.LivPrb)
    /\ loc.prm.DiscFacEff > Scale

\* C8: calc_stochastic_mpc raises ValueError exactly when
\* inner = DiscFac * E[R^(1-CRRA)] is <= 0 or >= 1 and otherwise returns
\* 1 - inner^(1/CRRA); in method_of_moderation_stochastic_r it is the first
\* step, and when it raises no other step runs and no solution is returned.
C8_StochasticMpcDomain ==
    /\ ret.fn = "calc_stochastic_mpc"
       => LET inner == stochastic_inner(ret.DiscFac, ret.RiskyAvg, ret.RiskyStd)
          IN  IF inner # NaN /\ (inner <= 0 \/ inner >= Scale)
              THEN ret.out.exc = "ValueError"
              ELSE ret.out.exc = "" /\ ret.out.val = Sub(Scale, SqrtI(inner))
    /\ (IsStochR /\ steps # << >>)
       => /\ steps[1] = "calc_stochastic_mpc"
          /\ LET inner == stochastic_inner(par.DiscFac, par.RiskyAvg, par.RiskyStd)
             IN  IF inner # NaN /\ (inner <= 0 \/ inner >= Scale)
                 THEN /\ pc = "raised"
                      /\ err = "ValueError"
                      /\ steps = << "calc_stochastic_mpc" >>
                      /\ solution = << >>
                      /\ loc = NoLoc
                 ELSE /\ err = ""
                      /\ loc.MPCmin_stochastic = Sub(Scale, SqrtI(inner))

\* C8, witness: the stochastic-return solver stopped at its first step with
\* a ValueError.
C8_SolverStoppedAtFirstStep ==
    /\ IsStochR
    /\ pc = "raised"
    /\ err = "ValueError"
    /\ steps = << "calc_stochastic_mpc" >>
    /\ solution = << >>

NodesBelowCusp ==
    {i \in 1..Len(loc.egm.mNrm) :
        Lt(loc.egm.mNrm[i],
           calc_cusp_point(loc.prm.hNrm, loc.prm.mNrmMin, loc.prm.MPCmin, loc.prm.MPCmax))}

\* C10: when every gridpoint lies on the same side of mNrmCusp,
\* _build_cfunc_mom_cusp raises no error and returns exactly what
\* _build_cfunc_mom returns for the same inputs; when both sides hold a
\* gridpoint it returns a TransformedFunctionMoMCusp.
C10_CuspFallback ==
    (IsCusp /\ pc = "built")
    => /\ err = ""
       /\ IF NodesBelowCusp = {} \/ NodesBelowCusp = 1..Len(loc.egm.mNrm)
          THEN loc.cFunc =
                   build_cfunc_mom(loc.prm.DiscFacEff, par.Rfree, par.PermGroFac,
                                   par.IncShkDstn, solution_next, loc.egm.aNrm,
                                   loc.egm.cNrm, loc.egm.mNrm, loc.prm.mNrmMin,
                                   loc.prm.hNrm, loc.prm.MPCmin, loc.prm.MPCmax,
                                   par.CubicBool, loc.bnd.Optimist, loc.bnd.Pessimist)
          ELSE loc.cFunc.kind = "TransformedFunctionMoMCusp"

\* C10, witness: every gridpoint lies below the cusp and the cusp builder
\* returned a standard moderated function.
C10_FellBackBelowCusp ==
    /\ IsCusp
    /\ pc = "built"
    /\ NodesBelowCusp = 1..Len(loc.egm.mNrm)
    /\ loc.cFunc.kind = "TransformedFunctionMoM"

\* Two values agree to three decimal places.
CloseTo(a, b) == IsNum(a) /\ IsNum(b) /\ Abs(a - b) * 1000 <= Scale

CuspSolvedCall ==
    /\ SolvedCall
    /\ Target.kind = "TransformedFunctionMoMCusp"
    /\ Lt(0, Latest.MPCmin) /\ Lt(Latest.MPCmin, Latest.MPCmax)
    /\ Lt(0, Add(Latest.hNrm, Latest.mNrmMin))

\* C12: the cusp consumption function respects both upper bounds: for every
\* m > mNrmMin, Pessimist.cFunc(m) <= c(m) <= min(Optimist.cFunc(m),
\* TighterUpperBound.cFunc(m)), given MPCmax > MPCmin > 0 and
\* hNrm + mNrmMin > 0.
C12_CuspBothBounds ==
    CuspSolvedCall
    => \A i \in 1..Len(qry.m) :
          /\ Le(PFCall(Latest.Pessimist.cFunc, qry.m[i]), qry.out[i])
          /\ Le(qry.out[i], PFCall(Latest.Optimist.cFunc, qry.m[i]))
          /\ Le(qry.out[i], PFCall(Latest.TighterUpperBound.cFunc, qry.m[i]))

\* C12, the failing case: the second period of a cusp solve with linear
\* interpolation and parameters in the domain, evaluated beyond the last
\* gridpoint, returns NaN.
C12_CuspNaNOutsideGrid ==
    /\ CuspSolvedCall /\ ParamsInDomain
    /\ ~par.CubicBool /\ Len(solution) = 2
    /\ Lt(Latest.cFunc.logitModRteFuncHigh.x[Len(Latest.cFunc.logitModRteFuncHigh.x) - 1],
          log_mnrm_ex(qry.m[1], Latest.mNrmMin))
    /\ qry.out[1] = NaN

\* make_behavioral_bounds has just returned to the solver.
BoundsMade == pc = "bounded"

\* Points m at which a bound is compared with its closed form.
BoundPoints == {loc.prm.mNrmMin + d : d \in QueryOffsets}

MPCmaxUncOf(nxt, p) ==
    calc_mpc_max(nxt.MPCmax, calc_worst_inc_prob(p.IncShkDstn),
                 calc_patience_factor(p.Rfree, Mul(p.DiscFac, p.LivPrb)))

\* What C14 says of the parameters prm returned for the artificial limit art.
MPCmaxContract(prm, art, unc) ==
    /\ prm.mNrmMin = IF art = None THEN prm.BoroCnstNat ELSE Max2(prm.BoroCnstNat, art)
    /\ (prm.BoroCnstNat < prm.mNrmMin) <=> (art # None /\ art > prm.BoroCnstNat)
    /\ prm.MPCmax = IF prm.BoroCnstNat < prm.mNrmMin THEN Scale ELSE unc
    /\ unc # Scale => ((prm.MPCmax = Scale) <=> (prm.BoroCnstNat < prm.mNrmMin))
    /\ art = None => (prm.mNrmMin = prm.BoroCnstNat /\ prm.MPCmax = unc)

EgmDone == pc = "egm"

\* Lt between neighbours: strictly increasing, and no NaN.
Rising(xs) == \A i \in 1..(Len(xs) - 1) : Lt(xs[i], xs[i + 1])

\* C15: solve_egm_step returns aNrm, cNrm, mNrm and EndOfPrdvP of the length
\* of aXtraGrid, aligned by index, with aNrm[i] = aXtraGrid[i] + mNrmMin and
\* mNrm[i] = cNrm[i] + aNrm[i]; for a strictly increasing aXtraGrid, aNrm and
\* mNrm are strictly increasing.
C15_EgmArrays ==
    EgmDone
    => LET n == Len(par.aXtraGrid)
           egm == loc.egm
       IN  /\ DOMAIN egm.aNrm = 1..n /\ DOMAIN egm.cNrm = 1..n
           /\ DOMAIN egm.mNrm = 1..n /\ DOMAIN egm.EndOfPrdvP = 1..n
           /\ \A i \in 1..n :
                 /\ egm.aNrm[i] = Add(par.aXtraGrid[i], loc.prm.mNrmMin)
                 /\ egm.cNrm[i] = FToFix(FInvRootCRRA(egm.EndOfPrdvP[i]))
                 /\ egm.mNrm[i] = Add(egm.cNrm[i], egm.aNrm[i])
           /\ StrictlyIncreasing(par.aXtraGrid)
                 => (Rising(egm.aNrm) /\ Rising(egm.mNrm))

\* C15, witness: with linear interpolation and parameters in their domain,
\* the EGM step of a third period has returned aNrm rising along a strictly
\* increasing grid while cNrm and mNrm are NaN at every gridpoint.
C15_EgmThirdPeriodNaN ==
    /\ pc = "egm"
    /\ Len(solution) = 2
    /\ ~par.CubicBool
    /\ ParamsInDomain
    /\ StrictlyIncreasing(par.aXtraGrid)
    /\ Rising(loc.egm.aNrm)
    /\ \A i \in DOMAIN loc.egm.mNrm : loc.egm.cNrm[i] = NaN /\ loc.egm.mNrm[i] = NaN

\* C16: on every solution of method_of_moderation_stochastic_r with
\* RiskyStd > 0, the MPC of calc_stochastic_mpc, stored as MPCmin_stochastic,
\* is strictly less than the deterministic MPCmin of the same solve.
C16_StochasticMpcBelowMPCmin ==
    (IsStochR /\ par.RiskyStd > 0)
    => \A k \in 1..Len(solution) :
          Lt(solution[k].MPCmin_stochastic, solution[k].MPCmin)

\* C16, witness: with parameters in their domain, a risky return of mean 2
\* and standard deviation 0.20 has passed the domain check, and the solution
\* of a later period stores a stochastic MPC above its deterministic MPCmin.
C16_StochasticMpcAboveMPCmin ==
    /\ IsStochR
    /\ ParamsInDomain
    /\ par.RiskyAvg = 2 * Scale
    /\ par.RiskyStd > 0
    /\ Len(solution) >= 2
    /\ InUnit(Latest.MPCmin_stochastic)
    /\ InUnit(Latest.MPCmin)
    /\ Latest.MPCmin_stochastic > Latest.MPCmin

\* The default parameterization of the stochastic-return consumer.
DefaultStochasticParams ==
    /\ IsStochR
    /\ par.DiscFac = (96 * Scale) \div 100
    /\ par.RiskyAvg = RiskyAvgDefault
    /\ par.RiskyStd = RiskyStdDefault

\* C17: on every solution of method_of_moderation_stochastic_r, the attribute
\* MPCmin is strictly less than the attribute MPCmin_deterministic, both lie
\* in (0,1), and for the default parameters they differ by less than 0.1.
C17_MPCminBelowDeterministic ==
    IsStochR
    => \A k \in 1..Len(solution) :
          /\ Lt(solution[k].MPCmin, solution[k].MPCmin_deterministic)
          /\ InUnit(solution[k].MPCmin)
          /\ InUnit(solution[k].MPCmin_deterministic)
          /\ DefaultStochasticParams
                => solution[k].MPCmin_deterministic - solution[k].MPCmin
                       < Scale \div 10

\* C17, witness: the solution of the default stochastic-return consumer
\* stores one number in (0,1) as both MPCmin and MPCmin_deterministic,
\* with the smaller stochastic MPC kept apart in MPCmin_stochastic.
C17_MPCminIsDeterministic ==
    /\ DefaultStochasticParams
    /\ ParamsInDomain
    /\ Len(solution) >= 1
    /\ InUnit(Latest.MPCmin)
    /\ Latest.MPCmin = Latest.MPCmin_deterministic
    /\ Lt(Latest.MPCmin_stochastic, Latest.MPCmin)

\* _method_of_moderation as a function of its arguments, in the order of its
\* statements: the solution from the EGM arrays, ...
MoMFromEgm(prm, bnd, egm, nxt, p) ==
    [cFunc |-> build_cfunc_mom(prm.DiscFacEff, p.Rfree, p.PermGroFac, p.IncShkDstn,
                               nxt, egm.aNrm, egm.cNrm, egm.mNrm, prm.mNrmMin,
                               prm.hNrm, prm.MPCmin, prm.MPCmax, p.CubicBool,
                               bnd.Optimist, bnd.Pessimist),
     vFunc |-> "NullFunc",
     mNrmMin |-> prm.mNrmMin, hNrm |-> prm.hNrm,
     MPCmin |-> prm.MPCmin, MPCmax |-> prm.MPCmax,
     Optimist |-> bnd.Optimist, Pessimist |-> bnd.Pessimist,
     TighterUpperBound |-> bnd.TighterUpperBound]

\* ... the bounds and the EGM step from the prepared quantities, ...
MoMFromPrepared(prm, nxt, p) ==
    MoMFromEgm(prm,
               UnpackBounds(make_behavioral_bounds(prm.hNrm, prm.mNrmMin,
                                                   prm.MPCmin, prm.MPCmax)),
               solve_egm_step(p.aXtraGrid, prm.mNrmMin, prm.DiscFacEff, p.Rfree,
                              p.PermGroFac, p.IncShkDstn, nxt),
               nxt, p)

\* ... and the whole call.  RiskyAvg and RiskyStd are no arguments of it.
method_of_moderation(nxt, p) == MoMFromPrepared(prepare_to_solve(nxt, p), nxt, p)

\* The attributes a solution of method_of_moderation carries.
SharedAttributes ==
    {"cFunc", "vFunc", "mNrmMin", "hNrm", "MPCmin", "MPCmax", "Optimist",
     "Pessimist", "TighterUpperBound"}

SameOn(a, b, attrs) == \A f \in attrs : a[f] = b[f]

\* method_of_moderation_stochastic_r has just returned to the agent.
StochasticReturned ==
    IsStochR /\ pc = "returned" /\ qry.fn = "" /\ obj.kind = "Nothing"

C19_RoundTrip ==
    /\ ret.fn = "logit_moderate"
          => (IsNum(ret.out) /\ CloseTo(expit_moderate(ret.out), ret.omega))
    /\ ret.fn = "expit_moderate"
          => /\ IsNum(ret.out)
             /\ IsNum(logit_moderate(ret.out))
             /\ Abs(logit_moderate(ret.out) - ret.chi) * 100 <= Scale

\* C19, witness: expit_moderate called with chi = 40 has returned exactly 1,
\* and logit_moderate of that is not a number.
C19_ExpitSaturated ==
    /\ ret.fn = "expit_moderate"
    /\ ret.chi = 40 * Scale
    /\ ret.out = Scale
    /\ ~IsNum(logit_moderate(ret.out))

\* The centred finite difference (f(m + eps) - f(m - eps)) / (2 * eps) of the
\* accuracy test, with eps a quarter of the distance of m from mNrmMin.
FiniteDifferenceStep(f, m) == (m - f.mNrmMin) \div 4

FiniteDifference(f, m, eps) ==
    Div(Sub(EvalCall(f, << m + eps >>).out[1], EvalCall(f, << m - eps >>).out[1]),
        2 * eps)

\* Two numbers that differ by more than a twentieth of the second.
Differ(a, b) == IsNum(a) /\ IsNum(b) /\ Abs(a - b) * 20 > Abs(b)

\* The difference quotient is resolved by the arithmetic: halving eps does
\* not change it.
Resolved(f, m, eps) ==
    ~Differ(FiniteDifference(f, m, eps \div 2), FiniteDifference(f, m, eps))

\* The nodes of the chi-interpolants of f, in mu.
InterpolationNodes(f) ==
    IF f.kind = "TransformedFunctionMoMCusp"
    THEN {f.logitModRteFuncLow.x[i] : i \in DOMAIN f.logitModRteFuncLow.x}
         \cup {f.logitModRteFuncHigh.x[i] : i \in DOMAIN f.logitModRteFuncHigh.x}
    ELSE {f.logitModRteFunc.x[i] : i \in DOMAIN f.logitModRteFunc.x}

\* No interpolation node, and no cusp, between m - eps and m + eps.
AwayFromNodes(f, m, eps) ==
    /\ \A x \in InterpolationNodes(f) :
          \/ x < log_mnrm_ex(m - eps, f.mNrmMin)
          \/ x > log_mnrm_ex(m + eps, f.mNrmMin)
    /\ f.kind = "TransformedFunctionMoMCusp"
          => (m + eps < f.mNrmCusp \/ m - eps >= f.mNrmCusp)

\* The analytic and the numerical derivative are numbers that agree to
\* within a twentieth, the resolution of the difference quotient.
MatchesDifference(analytic, numerical) ==
    IsNum(analytic) /\ IsNum(numerical) /\ ~Differ(analytic, numerical)

\* The point m of f admits the comparison: no node within eps of it, and
\* the difference quotient resolved.
Comparable(f, m, eps) == AwayFromNodes(f, m, eps) /\ Resolved(f, m, eps)

\* C20: for the consumption functions of the standard, the cusp and the
\* stochastic-return solver, cFunc.derivative(m) is the derivative of
\* cFunc(m): at every m > mNrmMin away from the interpolation nodes it
\* matches the centred finite difference of cFunc, wherever the arithmetic
\* resolves that difference.
C20_DerivativeMatchesDifference ==
    (SolvedDerivative /\ qry.exc = "")
    => \A i \in DOMAIN qry.m :
          Comparable(Latest.cFunc, qry.m[i],
                     FiniteDifferenceStep(Latest.cFunc, qry.m[i]))
          => MatchesDifference(qry.out[i],
                               FiniteDifference(Latest.cFunc, qry.m[i],
                                   FiniteDifferenceStep(Latest.cFunc, qry.m[i])))

\* C20, witness: with linear interpolation and parameters in their domain,
\* the derivative of a second period's consumption function was evaluated
\* away from the nodes and beyond the last of them, and returned NaN.
C20_DerivativeNaNAwayFromNodes ==
    /\ SolvedDerivative /\ ParamsInDomain
    /\ ~par.CubicBool /\ Len(solution) = 2
    /\ Latest.cFunc.kind = "TransformedFunctionMoM"
    /\ Comparable(Latest.cFunc, qry.m[1], FiniteDifferenceStep(Latest.cFunc, qry.m[1]))
    /\ \A x \in InterpolationNodes(Latest.cFunc) :
          IsNum(x) /\ x < log_mnrm_ex(qry.m[1], Latest.mNrmMin)
    /\ qry.out[1] = NaN

\* The solutions a solver call can have been handed as solution_next: the
\* terminal one and the assembled solutions of the later periods.
Assembled(nxt) ==
    /\ nxt.cFunc.kind # "Nothing"
    /\ nxt = solution_terminal \/ \E k \in 1..Len(solution) : solution[k] = nxt

\* C21: whatever CubicBool, the solution method_of_moderation returned for
\* period t+1 is usable as solution_next of period t, period after period:
\* the vPfunc the EGM step has evaluated and the vPPfunc the builder has
\* evaluated on it are functions, not the NullFunc placeholder, and no solve
\* is under way on a solution_next that is not fully assembled.  (Solved
\* without a value function, so vFunc is not evaluated.)
C21_HandOff ==
    StandardSolver
    => /\ pc \in {"egm", "built"} => solution_next.vPfunc # "NullFunc"
       /\ pc = "built" => solution_next.vPPfunc # "NullFunc"
       /\ pc # "raised" => Assembled(solution_next)

\* C21, witness: with linear interpolation and parameters in their domain,
\* the builder of the second period has evaluated the vPPfunc of the first
\* period's assembled solution, which is NullFunc, and the chi-interpolant it
\* built has NaN end nodes.
C21_NullFuncEvaluated ==
    /\ StandardSolver /\ ParamsInDomain /\ ~par.CubicBool
    /\ pc = "built"
    /\ Len(solution) = 1
    /\ solution_next = solution[1]
    /\ solution_next.vPPfunc = "NullFunc"
    /\ solution_next.vPfunc = "MargValueFuncCRRA"
    /\ loc.cFunc.logitModRteFunc.y[1] = NaN

\* The builder has just returned the consumption function to the solver.
CFuncBuilt == pc = "built"

\* The MPC realized at the EGM gridpoints of the call under way.
RealizedMPC ==
    MPCVector(loc.prm.DiscFacEff, par.Rfree, par.PermGroFac, par.IncShkDstn,
              solution_next, loc.egm.aNrm, loc.egm.cNrm)

\* The MPC the chain rule gives at m for the moderation ratio omega with
\* slope omega_mu in mu between the bounds f_pes and f_up.
ChainRuleMPC(omega, omega_mu, f_up, f_pes, m, mNrmMin) ==
    Add(Add(f_pes.slope, Mul(omega, Sub(f_up.slope, f_pes.slope))),
        Div(Mul(omega_mu, Sub(PFCall(f_up, m), PFCall(f_pes, m))), Sub(m, mNrmMin)))

\* Node k of the omega-interpolant, built with node slopes, has the slope
\* the chain rule implies for the realized MPC, to within a hundredth.
NodeSlopeConsistent(interp, k, f_up, f_pes, m, mNrmMin, MPC) ==
    LET implied == ChainRuleMPC(interp.y[k], interp.dydx[k], f_up, f_pes, m, mNrmMin)
    IN  IsNum(implied) /\ IsNum(MPC) /\ Abs(implied - MPC) * 100 <= Scale

\* The number of EGM gridpoints below the cusp of f.
LowCount(f) == Cardinality({i \in DOMAIN loc.egm.mNrm : loc.egm.mNrm[i] < f.mNrmCusp})

\* C22: at every EGM gridpoint i the slope of omega in mu that the builder
\* passes as node slope is the chain-rule value implied by the realized
\* MPC_i and the bound pair of the region: Optimist for the standard build
\* and the cusp's high region, TighterUpperBound for the cusp's low region.
\* The node slopes are those the omega-interpolants carry, which they do
\* under cubic interpolation.
C22_NodeSlopeConsistency ==
    (CFuncBuilt /\ par.CubicBool)
    => LET f == loc.cFunc
           m == loc.egm.mNrm
       IN  \A i \in DOMAIN m :
              IF f.kind = "TransformedFunctionMoM"
              THEN NodeSlopeConsistent(f.modRteFunc, i + 1, f.optimist_func,
                                       f.pessimist_func, m[i], f.mNrmMin, RealizedMPC[i])
              ELSE IF i <= LowCount(f)
              THEN NodeSlopeConsistent(f.modRteFuncLow, i + 1, f.tight_func,
                                       f.pessimist_func, m[i], f.mNrmMin, RealizedMPC[i])
              ELSE NodeSlopeConsistent(f.modRteFuncHigh, i - LowCount(f) + 1,
                                       f.optimist_func, f.pessimist_func, m[i],
                                       f.mNrmMin, RealizedMPC[i])

\* C22, witness: the cusp builder, under cubic interpolation and with
\* parameters in their domain, has built both regions; at the first
\* gridpoint, below the cusp, the node slope passed is
\* (MPC - MPCmin) / (MPCmax - MPCmin), and the chain rule gives from it an
\* MPC that exceeds the realized one by omega * (MPCmax - MPCmin).
C22_LowRegionSlopeOff ==
    /\ CFuncBuilt /\ IsCusp /\ par.CubicBool /\ ParamsInDomain
    /\ loc.cFunc.kind = "TransformedFunctionMoMCusp"
    /\ loc.egm.mNrm[1] < loc.cFunc.mNrmCusp
    /\ loc.cFunc.modRteFuncLow.dydx[2]
          = Div(Sub(RealizedMPC[1], loc.prm.MPCmin), Sub(loc.prm.MPCmax, loc.prm.MPCmin))
    /\ CloseTo(ChainRuleMPC(loc.cFunc.modRteFuncLow.y[2], loc.cFunc.modRteFuncLow.dydx[2],
                            loc.cFunc.tight_func, loc.cFunc.pessimist_func,
                            loc.egm.mNrm[1], loc.cFunc.mNrmMin),
               RealizedMPC[1] + Mul(loc.cFunc.modRteFuncLow.y[2],
                                    Sub(loc.prm.MPCmax, loc.prm.MPCmin)))
    /\ Mul(loc.cFunc.modRteFuncLow.y[2], Sub(loc.prm.MPCmax, loc.prm.MPCmin)) * 20 > Scale

(***************************************************************************)
(* Nodes of the two interpolants of one TransformedFunctionMoM.            *)
(***************************************************************************)
ChiIsLogitAt(f, k) ==
    /\ InUnit(f.modRteFunc.y[k])
    /\ IsNum(f.logitModRteFunc.y[k])
    /\ CloseTo(f.logitModRteFunc.y[k], logit_moderate(f.modRteFunc.y[k]))

\* C23: the omega and chi interpolants of one TransformedFunctionMoM share
\* their node abscissae, and at every node, the two augmented end nodes
\* included, omega lies in (0, 1) and chi equals logit(omega).
C23_ChiIsLogitOfOmega ==
    (CFuncBuilt /\ loc.cFunc.kind = "TransformedFunctionMoM")
    => /\ loc.cFunc.modRteFunc.x = loc.cFunc.logitModRteFunc.x
       /\ \A k \in DOMAIN loc.cFunc.modRteFunc.y : ChiIsLogitAt(loc.cFunc, k)

C23_EndNodeChiNotLogit ==
    LET f == loc.cFunc
        n == Len(loc.egm.mNrm)
    IN  /\ CFuncBuilt
        /\ ParamsInDomain
        /\ f.kind = "TransformedFunctionMoM"
        /\ Len(solution) = 0
        /\ f.modRteFunc.x = f.logitModRteFunc.x
        /\ \A k \in 2..(n + 1) : ChiIsLogitAt(f, k)
        /\ InUnit(f.modRteFunc.y[n + 2])
        /\ IsNum(f.logitModRteFunc.y[n + 2])
        /\ Abs(f.logitModRteFunc.y[n + 2] - logit_moderate(f.modRteFunc.y[n + 2])) * 20 > Scale

(***************************************************************************)
(* Grid augmentation of _construct_mom_interpolants.                       *)
(***************************************************************************)
ConstructMomInterpolantsReturned == ret.fn = "_construct_mom_interpolants"

\* The interpolant is built on mu with one node added on each side, carries
\* the values y between the two linearly extrapolated end values, and holds
\* slopes only if cubic.
Augmented(interp, mu, y, yMu, CubicBool) ==
    LET n == Len(mu)
    IN  /\ DOMAIN interp.x = 1..(n + 2)
        /\ DOMAIN interp.y = 1..(n + 2)
        /\ StrictlyIncreasing(interp.x)
        /\ interp.x[1] = mu[1] - Scale \div 20
        /\ interp.x[n + 2] = mu[n] + Scale \div 2
        /\ \A k \in 1..n : interp.x[k + 1] = mu[k] /\ interp.y[k + 1] = y[k]
        /\ interp.y[1] = y[1] - MulI(yMu[1], Scale \div 20)
        /\ interp.y[n + 2] = y[n] + MulI(yMu[n], Scale \div 2)
        /\ IF CubicBool
           THEN /\ interp.kind = "CubicInterp"
                /\ interp.dydx = << yMu[1] >> \o yMu \o << yMu[n] >>
           ELSE /\ interp.kind = "LinearInterp"
                /\ interp.dydx = NoneList

\* C24: for a strictly increasing mu grid of n >= 1 nodes both interpolants
\* are built on the n + 2 strictly increasing nodes mu[0] - 0.05, mu,
\* mu[n-1] + 0.5; the original values are unchanged, the added values are
\* y[0] - y'[0] * 0.05 and y[n-1] + y'[n-1] * 0.5 under cubic and linear
\* interpolation, and the slopes reach the interpolant only with CubicBool.
C24_GridAugmentation ==
    ConstructMomInterpolantsReturned
    => /\ Augmented(ret.out.modRteFunc, ret.mu, ret.modRte, ret.modRteMu, ret.CubicBool)
       /\ Augmented(ret.out.logitModRteFunc, ret.mu, ret.logitModRte, ret.logitModRteMu,
                    ret.CubicBool)

C24_LinearExtrapolatedEnds ==
    /\ ConstructMomInterpolantsReturned
    /\ ~ret.CubicBool
    /\ Len(ret.mu) = 3
    /\ ret.out.logitModRteFunc.kind = "LinearInterp"
    /\ ret.out.logitModRteFunc.y[1] > ret.logitModRte[1]
    /\ ret.out.logitModRteFunc.y[5] > ret.logitModRte[3]
    /\ ret.out.modRteFunc.y[5] = ret.modRte[3] + Scale \div 20

(***************************************************************************)
(* Reconstruction of the EGM consumption at the gridpoints.                *)
(***************************************************************************)
\* cFunc(m) at one point, for either class of moderated function.
CFuncAt(f, m) ==
    IF f.kind = "TransformedFunctionMoMCusp" THEN CuspCall(f, << m >>)[1]
    ELSE MoMCall(f, m)

\* cFunc(m_i) is the EGM consumption c_i, up to the resolution of the
\* arithmetic.
Reconstructs(f, m, c) ==
    LET v == CFuncAt(f, m)
    IN  IsNum(v) /\ IsNum(c) /\ Abs(v - c) * 200 <= Scale + Abs(c)

\* C25: evaluating the moderated consumption function at any EGM gridpoint
\* m_i returns the EGM consumption c_i, for the standard build and for both
\* regions of the cusp build.
C25_ReconstructionAtNodes ==
    CFuncBuilt
    => \A i \in DOMAIN loc.egm.mNrm :
          Reconstructs(loc.cFunc, loc.egm.mNrm[i], loc.egm.cNrm[i])

C25_FirstGridpointNaN ==
    /\ CFuncBuilt
    /\ ParamsInDomain
    /\ ~par.CubicBool
    /\ Len(solution) = 1
    /\ solution_next.vPPfunc = "NullFunc"
    /\ IsNum(loc.egm.mNrm[1])
    /\ IsNum(loc.egm.cNrm[1])
    /\ CFuncAt(loc.cFunc, loc.egm.mNrm[1]) = NaN
    /\ \A i \in 2..Len(loc.egm.mNrm) :
          Reconstructs(loc.cFunc, loc.egm.mNrm[i], loc.egm.cNrm[i])

(***************************************************************************)
(* The two branches of TransformedFunctionMoM.derivative.                  *)
(***************************************************************************)
\* The function whose derivative the caller asked for, with bounds that
\* have a derivative method and the same nonzero slope.
EqualSlopeDerivativeAsked ==
    /\ qry.fn = "derivative"
    /\ Target.kind = "TransformedFunctionMoM"
    /\ HasDerivative(Target.optimist_func)
    /\ HasDerivative(Target.pessimist_func)
    /\ Target.optimist_func.slope = Target.pessimist_func.slope
    /\ Target.optimist_func.slope # 0

\* The value of each branch of derivative at the point m of f.
EqualBranch(f, m) ==
    MoMSlopeEqual(PFCall(f.optimist_func, m), PFCall(f.pessimist_func, m),
                  PFDerivative(f.optimist_func, m), Sub(m, f.mNrmMin),
                  expit_moderate(InterpEval(f.logitModRteFunc, log_mnrm_ex(m, f.mNrmMin))),
                  InterpDer(f.logitModRteFunc, log_mnrm_ex(m, f.mNrmMin)))

GeneralBranch(f, m) ==
    MoMSlopeGeneral(PFCall(f.optimist_func, m), PFCall(f.pessimist_func, m),
                    PFDerivative(f.optimist_func, m), PFDerivative(f.pessimist_func, m),
                    Sub(m, f.mNrmMin),
                    expit_moderate(InterpEval(f.logitModRteFunc,
                                              log_mnrm_ex(m, f.mNrmMin))),
                    InterpDer(f.logitModRteFunc, log_mnrm_ex(m, f.mNrmMin)))

\* The same result: the same non-number, or numbers that differ by no more
\* than the resolution of the arithmetic.
SameResult(a, b) ==
    \/ a = b
    \/ IsNum(a) /\ IsNum(b) /\ Abs(a - b) * 100 <= Scale + Abs(b)

\* C29: whenever both bounds have the same nonzero slope, the equal-slope
\* shortcut of TransformedFunctionMoM.derivative and its general product-rule
\* formula return the same value, so the branch taken never changes the
\* result.
C29_BranchesAgree ==
    EqualSlopeDerivativeAsked
    => \A i \in DOMAIN qry.m :
          /\ qry.out[i] = EqualBranch(Target, qry.m[i])
          /\ SameResult(EqualBranch(Target, qry.m[i]), GeneralBranch(Target, qry.m[i]))

C29_BranchesAgreeOnNumber ==
    /\ EqualSlopeDerivativeAsked
    /\ ParamsInDomain
    /\ IsNum(qry.out[1])
    /\ qry.out[1] > Target.optimist_func.slope + Scale \div 10
    /\ IsNum(GeneralBranch(Target, qry.m[1]))

(***************************************************************************)
(* Evaluations are read-only.                                              *)
(***************************************************************************)
\* A step in which the caller evaluates cFunc or its derivative.
EvaluationStep == qry.fn = "" /\ qry'.fn \in {"__call__", "derivative"}

\* What evaluating the function f by the method fn on the array m gives.
EvaluationOf(f, fn, m) == IF fn = "__call__" THEN EvalCall(f, m) ELSE EvalDerivative(f, m)

EgmReturned == ret.fn = "endogenous_grid_method"

\* The parameters of that call, and what prepare_to_solve makes of them.
EgmParams == [par EXCEPT !.BoroCnstArt = ret.BoroCnstArt]

EgmPrepared == prepare_to_solve(solution_next, EgmParams)

\* The end-of-period assets behind node k of the consumption interpolant.
NodeAssets(f, k) == f.x[k] - f.y[k]

\* The interpolant starts at the boundary node (mNrmMin, 0), its next node
\* is the gridpoint aXtra = 0, and the nodes after it are those of aXtraGrid.
ConstraintGridpointOnce(f, aXtraGrid, mNrmMin) ==
    /\ DOMAIN f.x = 1..(Len(aXtraGrid) + 2)
    /\ DOMAIN f.y = DOMAIN f.x
    /\ f.x[1] = mNrmMin
    /\ f.y[1] = 0
    /\ NodeAssets(f, 2) = mNrmMin
    /\ \A i \in 1..Len(aXtraGrid) : NodeAssets(f, i + 2) = aXtraGrid[i] + mNrmMin

\* The interpolant starts at the boundary node and goes on with the nodes of
\* aXtraGrid.
NoGridpointAdded(f, aXtraGrid, mNrmMin) ==
    /\ DOMAIN f.x = 1..(Len(aXtraGrid) + 1)
    /\ DOMAIN f.y = DOMAIN f.x
    /\ f.x[1] = mNrmMin
    /\ f.y[1] = 0
    /\ \A i \in 1..Len(aXtraGrid) : NodeAssets(f, i + 1) = aXtraGrid[i] + mNrmMin

\* C30: when BoroCnstNat differs from mNrmMin, endogenous_grid_method adds
\* the asset gridpoint aXtra = 0 exactly once and the consumption interpolant
\* has the boundary node (mNrmMin, 0) in front of it; its abscissae are
\* strictly increasing and its first segment has slope exactly 1, the
\* collapsed MPCmax.  When BoroCnstNat equals mNrmMin no gridpoint is added.
C30_ConstraintGridpoint ==
    EgmReturned
    => IF EgmPrepared.BoroCnstNat # EgmPrepared.mNrmMin
       THEN /\ ConstraintGridpointOnce(ret.out.cFunc, par.aXtraGrid, ret.out.mNrmMin)
            /\ StrictlyIncreasing(ret.out.cFunc.x)
            /\ ret.out.cFunc.y[2] - ret.out.cFunc.y[1]
                  = ret.out.cFunc.x[2] - ret.out.cFunc.x[1]
            /\ ret.out.MPCmax = Scale
            /\ ret.out.cFunc.kind = "CubicInterp" => ret.out.cFunc.dydx[1] = Scale
       ELSE NoGridpointAdded(ret.out.cFunc, par.aXtraGrid, ret.out.mNrmMin)

C30_ArtificialLimitBinds ==
    /\ EgmReturned
    /\ ParamsInDomain
    /\ ret.BoroCnstArt = 0
    /\ EgmPrepared.BoroCnstNat < 0
    /\ ret.out.mNrmMin = 0
    /\ Len(par.aXtraGrid) = 4
    /\ Len(ret.out.cFunc.x) = 6
    /\ ret.out.cFunc.x[2] = ret.out.cFunc.y[2]
    /\ ret.out.cFunc.y[2] > 0
    /\ ret.out.cFunc.x[3] = ret.out.cFunc.y[3] + Scale \div 10

(***************************************************************************)
(* The parameter calculations shared by the solvers.                       *)
(***************************************************************************)
ParameterAttributes == {"mNrmMin", "hNrm", "MPCmin", "MPCmax"}

BoundAttributes == {"Optimist", "Pessimist", "TighterUpperBound"}

\* The three bounds of the solution sol are those made from its own mNrmMin,
\* hNrm, MPCmin and MPCmax.
BoundsFromOwnParameters(sol) ==
    SameOn(sol,
           UnpackBounds(make_behavioral_bounds(sol.hNrm, sol.mNrmMin, sol.MPCmin,
                                               sol.MPCmax)),
           BoundAttributes)

\* A Method of Moderation solver has just returned to the agent.
SolverReturned == pc = "returned" /\ qry.fn = "" /\ obj.kind = "Nothing"

SolveStep == pc \notin {"returned", "raised"} /\ pc' # pc

\* The caller's call of endogenous_grid_method.
EgmCallStep == ret.fn = "" /\ ret'.fn = "endogenous_grid_method"

\* The consumption function the agent's solver builds from the prepared
\* quantities, the bounds and the EGM arrays.
CFuncAgain(prm, bnd, egm, nxt, p) ==
    IF p.solver = "method_of_moderation_cusp"
    THEN build_cfunc_mom_cusp(prm.DiscFacEff, p.Rfree, p.PermGroFac, p.IncShkDstn, nxt,
                              egm.aNrm, egm.cNrm, egm.mNrm, prm.mNrmMin, prm.hNrm,
                              prm.MPCmin, prm.MPCmax, p.CubicBool, bnd.Optimist,
                              bnd.Pessimist, bnd.TighterUpperBound)
    ELSE build_cfunc_mom(prm.DiscFacEff, p.Rfree, p.PermGroFac, p.IncShkDstn, nxt,
                         egm.aNrm, egm.cNrm, egm.mNrm, prm.mNrmMin, prm.hNrm,
                         prm.MPCmin, prm.MPCmax, p.CubicBool, bnd.Optimist,
                         bnd.Pessimist)

SolveAgainFromPrepared(prm, bnd, nxt, p) ==
    [cFunc |-> CFuncAgain(prm, bnd,
                          solve_egm_step(p.aXtraGrid, prm.mNrmMin, prm.DiscFacEff,
                                         p.Rfree, p.PermGroFac, p.IncShkDstn, nxt),
                          nxt, p),
     mNrmMin |-> prm.mNrmMin, hNrm |-> prm.hNrm,
     MPCmin |-> prm.MPCmin, MPCmax |-> prm.MPCmax]
        @@ bnd

\* The agent's solver called a second time with the inputs nxt and p.
SolveAgain(nxt, p) ==
    SolveAgainFromPrepared(prepare_to_solve(nxt, p),
                           UnpackBounds(make_behavioral_bounds(
                               prepare_to_solve(nxt, p).hNrm,
                               prepare_to_solve(nxt, p).mNrmMin,
                               prepare_to_solve(nxt, p).MPCmin,
                               prepare_to_solve(nxt, p).MPCmax)),
                           nxt, p)

====
